---------------------------- MODULE Spec2Model ----------------------------
(***************************************************************************)
(* A model of react-particles-lite: the QuadTree spatial index, the        *)
(* Particle state machines, the attraction and pointer-interaction steps   *)
(* and the Engine's frame loop, event handlers and asset-ready join.       *)
(*                                                                         *)
(* Numbers.  Every JavaScript number of the program is modelled as an      *)
(* integer counting units of 1/FP: a length of 3 px is 3*FP, an opacity of *)
(* 0.5 is FP \div 2, a timestamp of 16.67 ms is 1667 when FP = 100.        *)
(* Sums and differences are exact; products and quotients are rounded      *)
(* down to the unit (Mul, Div).  Halving (QuadTree.subdivide) is exact for *)
(* the boundaries the specifications below explore.                        *)
(***************************************************************************)
EXTENDS Integers, Sequences, FiniteSets, TLC

\* Resolution of the fixed-point representation of the program's numbers.
FP == 100

\* a * b and a / b on fixed-point numbers.
Mul(a, b) == (a * b) \div FP
Div(a, b) == (a * FP) \div b

Min(a, b) == IF a <= b THEN a ELSE b
Max(a, b) == IF a >= b THEN a ELSE b

\* The elements of a sequence, as a set.
Range(s) == { s[i] : i \in DOMAIN s }

(***************************************************************************)
(* Boundary and QuadTree (utils/QuadTree).                                 *)
(***************************************************************************)

\* new Boundary(x, y, w, h)
Boundary(x, y, w, h) == [x |-> x, y |-> y, w |-> w, h |-> h]

\* Boundary.contains, with the comparisons made exclusive.
ContainsStrict(b, p) ==
    /\ p.x > b.x
    /\ p.x < b.x + b.w
    /\ p.y > b.y
    /\ p.y < b.y + b.h

\* Boundary.contains(p): edges inclusive.
Contains(b, p) ==
    /\ p.x >= b.x
    /\ p.x <= b.x + b.w
    /\ p.y >= b.y
    /\ p.y <= b.y + b.h

\* Boundary.intersects, with rectangles that only share an edge kept apart.
IntersectsStrict(b, range) ==
    ~ \/ range.x >= b.x + b.w
      \/ range.x + range.w <= b.x
      \/ range.y >= b.y + b.h
      \/ range.y + range.h <= b.y

\* Boundary.intersects(range): shared edges intersect.
Intersects(b, range) ==
    ~ \/ range.x > b.x + b.w
      \/ range.x + range.w < b.x
      \/ range.y > b.y + b.h
      \/ range.y + range.h < b.y

\* QuadTree.capacity
Capacity == 4

\* An absent sub-quadrant (undefined).
NoTree == [absent |-> TRUE]

\* new QuadTree(boundary)
NewQuadTree(b) ==
    [boundary |-> b, particles |-> << >>, divided |-> FALSE,
     northwest |-> NoTree, northeast |-> NoTree,
     southwest |-> NoTree, southeast |-> NoTree]

\* QuadTree.subdivide()
Subdivide(t) ==
    LET x == t.boundary.x
        y == t.boundary.y
        hw == t.boundary.w \div 2
        hh == t.boundary.h \div 2
    IN [t EXCEPT !.northwest = NewQuadTree(Boundary(x, y, hw, hh)),
                 !.northeast = NewQuadTree(Boundary(x + hw, y, hw, hh)),
                 !.southwest = NewQuadTree(Boundary(x, y + hh, hw, hh)),
                 !.southeast = NewQuadTree(Boundary(x + hw, y + hh, hw, hh)),
                 !.divided = TRUE]

\* insert as a call that refuses a particle once the node is full.
InsertDroppingOverflow(t, p) ==
    IF Contains(t.boundary, p) /\ Len(t.particles) < Capacity
    THEN [ok |-> TRUE, tree |-> [t EXCEPT !.particles = Append(@, p)]]
    ELSE [ok |-> FALSE, tree |-> t]

\* insert with a full node subdividing on every call, divided or not.
RECURSIVE InsertResubdividing(_, _)
InsertResubdividing(t, p) ==
    IF ~Contains(t.boundary, p) THEN [ok |-> FALSE, tree |-> t]
    ELSE IF Len(t.particles) < Capacity
    THEN [ok |-> TRUE, tree |-> [t EXCEPT !.particles = Append(@, p)]]
    ELSE
      LET d == Subdivide(t)
          nw == InsertResubdividing(d.northwest, p)
          ne == InsertResubdividing(d.northeast, p)
          sw == InsertResubdividing(d.southwest, p)
          se == InsertResubdividing(d.southeast, p)
      IN IF nw.ok THEN [ok |-> TRUE, tree |-> [d EXCEPT !.northwest = nw.tree]]
         ELSE IF ne.ok THEN [ok |-> TRUE, tree |-> [d EXCEPT !.northeast = ne.tree]]
         ELSE IF sw.ok THEN [ok |-> TRUE, tree |-> [d EXCEPT !.southwest = sw.tree]]
         ELSE IF se.ok THEN [ok |-> TRUE, tree |-> [d EXCEPT !.southeast = se.tree]]
         ELSE [ok |-> FALSE, tree |-> d]

\* insert with the sub-quadrants tried from the southeast backwards.
RECURSIVE InsertSoutheastFirst(_, _)
InsertSoutheastFirst(t, p) ==
    IF ~Contains(t.boundary, p) THEN [ok |-> FALSE, tree |-> t]
    ELSE IF Len(t.particles) < Capacity
    THEN [ok |-> TRUE, tree |-> [t EXCEPT !.particles = Append(@, p)]]
    ELSE
      LET d == IF t.divided THEN t ELSE Subdivide(t)
          nw == InsertSoutheastFirst(d.northwest, p)
          ne == InsertSoutheastFirst(d.northeast, p)
          sw == InsertSoutheastFirst(d.southwest, p)
          se == InsertSoutheastFirst(d.southeast, p)
      IN IF se.ok THEN [ok |-> TRUE, tree |-> [d EXCEPT !.southeast = se.tree]]
         ELSE IF sw.ok THEN [ok |-> TRUE, tree |-> [d EXCEPT !.southwest = sw.tree]]
         ELSE IF ne.ok THEN [ok |-> TRUE, tree |-> [d EXCEPT !.northeast = ne.tree]]
         ELSE IF nw.ok THEN [ok |-> TRUE, tree |-> [d EXCEPT !.northwest = nw.tree]]
         ELSE [ok |-> FALSE, tree |-> d]

\* QuadTree.insert(p): the result and the tree afterwards.
RECURSIVE Insert(_, _)
Insert(t, p) ==
    IF ~Contains(t.boundary, p) THEN [ok |-> FALSE, tree |-> t]
    ELSE IF Len(t.particles) < Capacity
    THEN [ok |-> TRUE, tree |-> [t EXCEPT !.particles = Append(@, p)]]
    ELSE
      LET d == IF t.divided THEN t ELSE Subdivide(t)
          nw == Insert(d.northwest, p)
          ne == Insert(d.northeast, p)
          sw == Insert(d.southwest, p)
          se == Insert(d.southeast, p)
      IN IF nw.ok THEN [ok |-> TRUE, tree |-> [d EXCEPT !.northwest = nw.tree]]
         ELSE IF ne.ok THEN [ok |-> TRUE, tree |-> [d EXCEPT !.northeast = ne.tree]]
         ELSE IF sw.ok THEN [ok |-> TRUE, tree |-> [d EXCEPT !.southwest = sw.tree]]
         ELSE IF se.ok THEN [ok |-> TRUE, tree |-> [d EXCEPT !.southeast = se.tree]]
         ELSE [ok |-> FALSE, tree |-> d]

\* QuadTree.query(range, found)
RECURSIVE Query(_, _, _)
Query(t, range, found) ==
    IF ~Intersects(t.boundary, range) THEN found
    ELSE
      LET here == found \o SelectSeq(t.particles, LAMBDA p : Contains(range, p))
      IN IF t.divided
         THEN Query(t.southeast, range,
                Query(t.southwest, range,
                  Query(t.northeast, range,
                    Query(t.northwest, range, here))))
         ELSE here

\* The depth of the deepest node of a tree (the root is at depth 0).
RECURSIVE Depth(_)
Depth(t) ==
    IF ~t.divided THEN 0
    ELSE 1 + Max(Max(Depth(t.northwest), Depth(t.northeast)),
                 Max(Depth(t.southwest), Depth(t.southeast)))

(***************************************************************************)
(* Configuration (types.ts, lib/defaults.ts).  Lengths, opacities, speeds  *)
(* and angles are fixed-point numbers; number.value and the push and       *)
(* remove quantities are plain counts; number.density.area is held in      *)
(* thousandths, the unit calculateParticleCount converts it to.            *)
(***************************************************************************)

\* bubble.opacity left out of the configuration (undefined).
Undefined == -1

\* DEFAULTS.default
DEFAULTS ==
    [number |-> [value |-> 50, density |-> [enable |-> TRUE, area |-> 800000]],
     shape |-> [type |-> "circle", images |-> 0],
     opacity |-> [value |-> FP \div 2, random |-> FALSE,
                  anim |-> [enable |-> FALSE, speed |-> 1 * FP,
                            opacity_min |-> FP \div 10, sync |-> FALSE]],
     size |-> [value |-> 3 * FP, random |-> TRUE,
               anim |-> [enable |-> FALSE, speed |-> 4 * FP,
                         size_min |-> FP \div 10, sync |-> FALSE]],
     rotate |-> [enable |-> TRUE, value |-> 45 * FP, random |-> FALSE,
                 anim |-> [enable |-> TRUE, speed |-> 2 * FP,
                           direction |-> "counter-clockwise", sync |-> FALSE]],
     move |-> [enable |-> TRUE, speed |-> 2 * FP,
               direction |-> [to |-> "none", random |-> FALSE],
               randomized |-> [enable |-> FALSE, min |-> Undefined, max |-> Undefined],
               straight |-> FALSE, out_mode |-> "out",
               attract |-> [enable |-> FALSE, rotateX |-> 3000 * FP,
                            rotateY |-> 3000 * FP]],
     sway |-> [enable |-> TRUE, amplitude |-> 10 * FP, frequency |-> FP \div 20,
               random |-> TRUE],
     depthBlur |-> [enable |-> TRUE, focus |-> FP \div 10, maxBlur |-> 8 * FP],
     interactivity |->
       [detect_on |-> "canvas",
        events |-> [onhover |-> [enable |-> TRUE, mode |-> "repulse"],
                    onclick |-> [enable |-> TRUE, mode |-> "push"]],
        modes |-> [grab |-> [distance |-> 100 * FP],
                   bubble |-> [distance |-> 200 * FP, size |-> 80 * FP,
                               opacity |-> Undefined],
                   repulse |-> [distance |-> 200 * FP],
                   push |-> [quantity |-> 4],
                   remove |-> [quantity |-> 2]]]]

(***************************************************************************)
(* Particle (classes/Particle.ts) and handleOutMode (utils/physics.ts).    *)
(***************************************************************************)

\* Math.PI
PI == (314 * FP) \div 100

\* Math.cos, sampled at the eighths of a turn.
Cos(a) ==
    LET turn == 2 * PI
        k == ((a % turn) * 8) \div turn
    IN << FP, (71 * FP) \div 100, 0, -((71 * FP) \div 100),
          -FP, -((71 * FP) \div 100), 0, (71 * FP) \div 100 >>[k + 1]

\* Math.sqrt of a fixed-point number: the largest r with r * r <= a * FP.
RECURSIVE SqrtBetween(_, _, _)
SqrtBetween(n, lo, hi) ==
    IF lo >= hi THEN lo
    ELSE LET mid == (lo + hi + 1) \div 2
         IN IF mid * mid <= n THEN SqrtBetween(n, mid, hi)
            ELSE SqrtBetween(n, lo, mid - 1)

Sqrt(a) == SqrtBetween(a * FP, 0, Min(a * FP, 40000))

\* DIRECTION_MAP[direction.to] || { x: 1, y: 1 }
DirectionMap(to) ==
    CASE to = "top" -> [x |-> 0, y |-> -1]
      [] to = "top-left" -> [x |-> -1, y |-> -1]
      [] to = "top-right" -> [x |-> 1, y |-> -1]
      [] to = "right" -> [x |-> 1, y |-> 0]
      [] to = "bottom" -> [x |-> 0, y |-> 1]
      [] to = "bottom-left" -> [x |-> -1, y |-> 1]
      [] to = "bottom-right" -> [x |-> 1, y |-> 1]
      [] to = "left" -> [x |-> -1, y |-> 0]
      [] OTHER -> [x |-> 1, y |-> 1]

\* No position argument given to the Particle constructor.
NoPosition == [none |-> TRUE]

\* Particle.initVelocity: <<vx, vy>> for the draws r.
InitVelocity(p, r) ==
    IF ~p.move.enable THEN << 0, 0 >>
    ELSE
      LET multiplier == DirectionMap(p.move.direction.to)
          dirX == IF p.move.direction.random THEN r.dirX - FP \div 2
                  ELSE multiplier.x * FP
          dirY == IF p.move.direction.random THEN r.dirY - FP \div 2
                  ELSE multiplier.y * FP
          rmax == IF p.move.randomized.max = Undefined THEN 5 * FP
                  ELSE p.move.randomized.max
          rmin == IF p.move.randomized.min = Undefined THEN 1 * FP
                  ELSE p.move.randomized.min
          randomizedSpeed == Max(Min(Mul(r.speed, p.move.speed), rmax), rmin)
          varSpeed == IF p.move.randomized.enable THEN randomizedSpeed
                      ELSE p.move.speed
      IN << Mul(dirX, varSpeed), Mul(dirY, varSpeed) >>

\* Particle.initImage: whether the particle loads an image.
LoadsImage(p) == p.shape.type = "image" /\ p.shape.images > 0

\* (rotation * Math.PI) / 180
Radians(rotation) == Div(Mul(rotation, PI), 180 * FP)

\* new Particle(canvas, p, position): id stands for the object's identity
\* and r holds the values the calls of Math.random() return.
NewParticle(canvas, p, position, id, r) ==
    LET spawnBuffer == p.size.value * 2
        v == InitVelocity(p, r)
        oRandomized == p.opacity.anim.enable /\ ~p.opacity.anim.sync
        opacity == IF oRandomized
                   THEN Mul(r.opacity, p.opacity.value - p.opacity.anim.opacity_min)
                        + p.opacity.anim.opacity_min
                   ELSE Mul(IF p.opacity.random THEN r.opacity ELSE FP,
                            p.opacity.value)
        sRandomized == p.size.anim.enable /\ ~p.size.anim.sync
        radius == IF sRandomized
                  THEN Mul(r.size, p.size.value - p.size.anim.size_min)
                       + p.size.anim.size_min
                  ELSE Mul(IF p.size.random THEN r.size ELSE FP, p.size.value)
        rotation == IF ~p.rotate.enable THEN 0
                    ELSE IF (p.rotate.anim.enable /\ ~p.rotate.anim.sync)
                            \/ p.rotate.random
                    THEN Mul(r.rotation, 360 * FP)
                    ELSE p.rotate.value
    IN [id |-> id,
        x |-> IF position = NoPosition
              THEN Mul(r.x, canvas.width * FP + spawnBuffer * 2) - spawnBuffer
              ELSE position.x,
        y |-> IF position = NoPosition
              THEN Mul(r.y, canvas.height * FP + spawnBuffer * 2) - spawnBuffer
              ELSE position.y,
        vx |-> v[1],
        vy |-> v[2],
        opacity |-> opacity,
        opacityDirection |-> IF oRandomized
                             THEN (IF r.opacityDirection > FP \div 2 THEN 1 ELSE -1)
                             ELSE 1,
        initialOpacity |-> opacity,
        radius |-> radius,
        sizeDirection |-> IF sRandomized
                          THEN (IF r.sizeDirection > FP \div 2 THEN 1 ELSE -1)
                          ELSE 1,
        initialRadius |-> radius,
        rotation |-> rotation,
        rotationRadians |-> Radians(rotation),
        swayPhase |-> IF p.sway.enable /\ p.sway.random
                      THEN Mul(Mul(r.sway, PI), 2 * FP) ELSE 0,
        imgObj |-> LoadsImage(p),
        sprites |-> IF p.depthBlur.enable THEN 3 ELSE 0]

\* handleOutMode with a wrap that moves a particle as soon as its centre
\* leaves the canvas, by the canvas dimension; the bounce is left out.
HandleOutModeByCentre(q, canvas, p) ==
    LET width == canvas.width * FP
        height == canvas.height * FP
        qx == IF q.x < 0 THEN [q EXCEPT !.x = q.x + width]
              ELSE IF q.x > width THEN [q EXCEPT !.x = q.x - width]
              ELSE q
    IN IF qx.y < 0 THEN [qx EXCEPT !.y = qx.y + height]
       ELSE IF qx.y > height THEN [qx EXCEPT !.y = qx.y - height]
       ELSE qx

\* handleOutMode with a bounce that turns the particle around where it is;
\* the wrap is left out.
HandleOutModeNoMirror(q, canvas, p) ==
    LET width == canvas.width * FP
        height == canvas.height * FP
        r == q.radius
        qx == IF (q.x - r <= 0 /\ q.vx < 0) \/ (q.x + r >= width /\ q.vx > 0)
              THEN [q EXCEPT !.vx = -q.vx] ELSE q
    IN IF (qx.y - r <= 0 /\ qx.vy < 0) \/ (qx.y + r >= height /\ qx.vy > 0)
       THEN [qx EXCEPT !.vy = -qx.vy] ELSE qx

\* handleOutMode with a bounce that turns a particle around whenever it
\* touches a wall, whichever way it moves; the wrap is left out.
HandleOutModeSticky(q, canvas, p) ==
    LET width == canvas.width * FP
        height == canvas.height * FP
        r == q.radius
        qx == IF q.x - r <= 0 \/ q.x + r >= width
              THEN [q EXCEPT !.vx = -q.vx] ELSE q
    IN IF qx.y - r <= 0 \/ qx.y + r >= height
       THEN [qx EXCEPT !.vy = -qx.vy] ELSE qx

\* handleOutMode(particle, canvas)
HandleOutMode(q, canvas, p) ==
    LET width == canvas.width * FP
        height == canvas.height * FP
        r == q.radius
        wrapWidth == width + r * 2
        wrapHeight == height + r * 2
    IN IF p.move.out_mode = "bounce"
       THEN
         LET qx == IF q.x - r <= 0 /\ q.vx < 0
                   THEN [q EXCEPT !.vx = -q.vx, !.x = r + (-(q.x - r))]
                   ELSE IF q.x + r >= width /\ q.vx > 0
                   THEN [q EXCEPT !.vx = -q.vx,
                                  !.x = width - r - (q.x + r - width)]
                   ELSE q
         IN IF qx.y - r <= 0 /\ qx.vy < 0
            THEN [qx EXCEPT !.vy = -qx.vy, !.y = r + (-(qx.y - r))]
            ELSE IF qx.y + r >= height /\ qx.vy > 0
            THEN [qx EXCEPT !.vy = -qx.vy,
                            !.y = height - r - (qx.y + r - height)]
            ELSE qx
       ELSE
         LET qx == IF q.x + r < 0 THEN [q EXCEPT !.x = q.x + wrapWidth]
                   ELSE IF q.x - r > width THEN [q EXCEPT !.x = q.x - wrapWidth]
                   ELSE q
         IN IF qx.y + r < 0 THEN [qx EXCEPT !.y = qx.y + wrapHeight]
            ELSE IF qx.y - r > height THEN [qx EXCEPT !.y = qx.y - wrapHeight]
            ELSE qx

\* Particle.handleSway(delta)
HandleSway(q, delta, p) ==
    IF ~p.sway.enable THEN q
    ELSE LET phase == q.swayPhase + Mul(p.sway.frequency, delta)
         IN [q EXCEPT !.swayPhase = phase,
                      !.x = q.x + Mul(Mul(Cos(phase), Mul(p.sway.amplitude, FP \div 10)),
                                      delta)]

\* handleOpacityAnimation without the assignment of initialOpacity.
HandleOpacityAnimationNoCache(q, delta, p) ==
    LET moved == q.opacity
                 + Mul(Div(p.opacity.anim.speed, 1000 * FP) * q.opacityDirection, delta)
        q1 == IF moved >= p.opacity.value
              THEN [q EXCEPT !.opacityDirection = -1, !.opacity = p.opacity.value]
              ELSE IF moved <= p.opacity.anim.opacity_min
              THEN [q EXCEPT !.opacityDirection = 1,
                             !.opacity = p.opacity.anim.opacity_min]
              ELSE [q EXCEPT !.opacity = moved]
        q2 == IF q1.opacity < 0 THEN [q1 EXCEPT !.opacity = 0] ELSE q1
    IN IF q2.opacity > FP THEN [q2 EXCEPT !.opacity = FP] ELSE q2

\* Particle.handleOpacityAnimation(delta)
HandleOpacityAnimation(q, delta, p) ==
    IF ~p.opacity.anim.enable THEN q
    ELSE
      LET moved == q.opacity
                   + Mul(Div(p.opacity.anim.speed, 1000 * FP) * q.opacityDirection, delta)
          q1 == IF moved >= p.opacity.value
                THEN [q EXCEPT !.opacityDirection = -1, !.opacity = p.opacity.value]
                ELSE IF moved <= p.opacity.anim.opacity_min
                THEN [q EXCEPT !.opacityDirection = 1,
                               !.opacity = p.opacity.anim.opacity_min]
                ELSE [q EXCEPT !.opacity = moved]
          q2 == IF q1.opacity < 0 THEN [q1 EXCEPT !.opacity = 0] ELSE q1
          q3 == IF q2.opacity > FP THEN [q2 EXCEPT !.opacity = FP] ELSE q2
      IN [q3 EXCEPT !.initialOpacity = q3.opacity]

\* handleSizeAnimation as a step that never turns around and never clamps.
HandleSizeAnimationUnclamped(q, delta, p) ==
    LET moved == q.radius
                 + Mul(Div(p.size.anim.speed, 100 * FP) * q.sizeDirection, delta)
    IN [q EXCEPT !.radius = moved, !.initialRadius = moved]

\* handleSizeAnimation as a step that stops at the bounds and keeps its
\* direction.
HandleSizeAnimationNoTurn(q, delta, p) ==
    LET moved == q.radius
                 + Mul(Div(p.size.anim.speed, 100 * FP) * q.sizeDirection, delta)
        radius == Max(Min(moved, p.size.value), p.size.anim.size_min)
    IN [q EXCEPT !.radius = radius, !.initialRadius = radius]

\* Particle.handleSizeAnimation(delta)
HandleSizeAnimation(q, delta, p) ==
    IF ~p.size.anim.enable THEN q
    ELSE
      LET moved == q.radius
                   + Mul(Div(p.size.anim.speed, 100 * FP) * q.sizeDirection, delta)
          q1 == IF moved >= p.size.value
                THEN [q EXCEPT !.sizeDirection = -1, !.radius = p.size.value]
                ELSE IF moved <= p.size.anim.size_min
                THEN [q EXCEPT !.sizeDirection = 1, !.radius = p.size.anim.size_min]
                ELSE [q EXCEPT !.radius = moved]
          q2 == IF q1.radius < 0 THEN [q1 EXCEPT !.radius = 0] ELSE q1
          q3 == IF q2.radius > p.size.value
                THEN [q2 EXCEPT !.radius = p.size.value] ELSE q2
      IN [q3 EXCEPT !.initialRadius = q3.radius]

\* handleRotationAnimation without the wrap of the angle.
HandleRotationAnimationNoWrap(q, delta, p) ==
    LET turned == q.rotation
                  + Mul(p.rotate.anim.speed
                        * (IF p.rotate.anim.direction = "clockwise" THEN 1 ELSE -1),
                        delta)
    IN [q EXCEPT !.rotation = turned, !.rotationRadians = Radians(turned)]

\* Particle.handleRotationAnimation(delta)
HandleRotationAnimation(q, delta, p) ==
    IF ~p.rotate.enable \/ ~p.rotate.anim.enable THEN q
    ELSE
      LET turned == q.rotation
                    + Mul(p.rotate.anim.speed
                          * (IF p.rotate.anim.direction = "clockwise" THEN 1 ELSE -1),
                          delta)
          rotation == IF turned > 360 * FP THEN turned - 360 * FP
                      ELSE IF turned < 0 THEN turned + 360 * FP
                      ELSE turned
      IN [q EXCEPT !.rotation = rotation, !.rotationRadians = Radians(rotation)]

\* Particle.update(delta)
Update(q, delta, canvas, p) ==
    LET moved == [q EXCEPT !.x = q.x + Mul(q.vx, delta), !.y = q.y + Mul(q.vy, delta)]
        bounded == HandleOutMode(moved, canvas, p)
        swayed == IF p.sway.enable THEN HandleSway(bounded, delta, p) ELSE bounded
        faded == IF p.opacity.anim.enable
                 THEN HandleOpacityAnimation(swayed, delta, p) ELSE swayed
        sized == IF p.size.anim.enable
                 THEN HandleSizeAnimation(faded, delta, p) ELSE faded
    IN IF p.rotate.enable /\ p.rotate.anim.enable
       THEN HandleRotationAnimation(sized, delta, p) ELSE sized

\* Particle.getDepth()
GetDepth(q, p) ==
    LET minSize == IF p.size.anim.enable THEN p.size.anim.size_min ELSE 0
        span == p.size.value - minSize
    IN Div(q.radius - minSize, IF span = 0 THEN FP ELSE span)

\* draw with the far sprite above one third and the mid sprite below it.
DrawTwoTiers(q, p) ==
    [kind |-> "particle",
     id |-> q.id,
     x |-> q.x,
     y |-> q.y,
     rotation |-> IF p.rotate.enable THEN q.rotationRadians ELSE 0,
     alpha |-> IF q.opacity < 0 THEN 0 ELSE IF q.opacity > FP THEN FP ELSE q.opacity,
     radius |-> q.radius,
     sprite |-> IF p.depthBlur.enable /\ q.sprites > 0
                THEN (IF GetDepth(q, p) > (33 * FP) \div 100 THEN 2 ELSE 1)
                ELSE Undefined]

\* Particle.draw(ctx): what it paints.
Draw(q, p) ==
    [kind |-> "particle",
     id |-> q.id,
     x |-> q.x,
     y |-> q.y,
     rotation |-> IF p.rotate.enable THEN q.rotationRadians ELSE 0,
     alpha |-> IF q.opacity < 0 THEN 0 ELSE IF q.opacity > FP THEN FP ELSE q.opacity,
     radius |-> q.radius,
     sprite |-> IF p.depthBlur.enable /\ q.sprites > 0
                THEN (IF GetDepth(q, p) > (66 * FP) \div 100 THEN 2
                      ELSE IF GetDepth(q, p) > (33 * FP) \div 100 THEN 1
                      ELSE 0)
                ELSE Undefined]

\* Particle.destroy()
DestroyParticle(q) == [q EXCEPT !.imgObj = FALSE, !.sprites = 0]

(***************************************************************************)
(* applyAttraction (utils/physics.ts), applyInteractions                   *)
(* (utils/interaction.ts).  The QuadTree of a tick holds the particles as  *)
(* they are when it is built; neither step moves a particle before the     *)
(* last query it makes, so the position of a particle a query returns is   *)
(* the one the tree holds, and the particle is known by its identity.      *)
(***************************************************************************)

\* The identities of the particles a query returns, in the order returned.
QueryIds(qt, range) ==
    LET found == Query(qt, range, << >>)
    IN [i \in DOMAIN found |-> found[i].id]

\* The inner loop of applyAttraction: p1 pulled by neighbors[k..].
RECURSIVE AttractBy(_, _, _, _, _)
AttractBy(p1, neighbors, k, particles, config) ==
    IF k > Len(neighbors) THEN p1
    ELSE IF neighbors[k].id = p1.id
    THEN AttractBy(p1, neighbors, k + 1, particles, config)
    ELSE
      LET p2 == neighbors[k]
          rotX == Mul(config.move.attract.rotateX, 1000 * FP)
          rotY == Mul(config.move.attract.rotateY, 1000 * FP)
          dx == p1.x - p2.x
          dy == p1.y - p2.y
      IN AttractBy([p1 EXCEPT !.vx = p1.vx - Div(dx, rotX),
                              !.vy = p1.vy - Div(dy, rotY)],
                   neighbors, k + 1, particles, config)

\* applyAttraction without the test of attract.enable.
ApplyAttractionAlways(particles, config, qt) ==
    LET rangeRadius == 200 * FP
    IN [i \in DOMAIN particles |->
          LET p1 == particles[i]
              range == Boundary(p1.x - rangeRadius, p1.y - rangeRadius,
                                rangeRadius * 2, rangeRadius * 2)
          IN AttractBy(p1, Query(qt, range, << >>), 1, particles, config)]

\* applyAttraction(particles, config, qtree): the particles afterwards.
ApplyAttraction(particles, config, qt) ==
    IF ~config.move.attract.enable THEN particles
    ELSE
      LET rangeRadius == 200 * FP
      IN [i \in DOMAIN particles |->
            LET p1 == particles[i]
                range == Boundary(p1.x - rangeRadius, p1.y - rangeRadius,
                                  rangeRadius * 2, rangeRadius * 2)
            IN AttractBy(p1, Query(qt, range, << >>), 1, particles, config)]

\* The search distance of the active hover mode.
QueryDist(config) ==
    LET mode == config.interactivity.events.onhover.mode
        modes == config.interactivity.modes
    IN IF mode = "grab" THEN modes.grab.distance
       ELSE IF mode = "bubble" THEN modes.bubble.distance
       ELSE IF mode = "repulse" THEN modes.repulse.distance
       ELSE 0

\* dx * dx + dy * dy from the pointer.
DistSq(p, mouse) ==
    Mul(p.x - mouse.x, p.x - mouse.x) + Mul(p.y - mouse.y, p.y - mouse.y)

\* applyInteractions without the reset.
NoBubbleReset(p) == p

\* The bubble reset that opens applyInteractions.
BubbleReset(p) == [p EXCEPT !.radius = p.initialRadius, !.opacity = p.initialOpacity]

\* A hover effect whose grab mode draws the particle halfway to the pointer.
HoverEffectGrabPulling(p, mouse, config) ==
    IF config.interactivity.events.onhover.mode = "grab"
    THEN [p EXCEPT !.x = p.x + (mouse.x - p.x) \div 2,
                   !.y = p.y + (mouse.y - p.y) \div 2]
    ELSE p

\* The effect of the active hover mode on a particle inside the circle.
HoverEffect(p, mouse, config) ==
    LET mode == config.interactivity.events.onhover.mode
        modes == config.interactivity.modes
        dx == p.x - mouse.x
        dy == p.y - mouse.y
        dist == Sqrt(DistSq(p, mouse))
    IN IF mode = "bubble"
       THEN
         LET ratio == FP - Div(dist, modes.bubble.distance)
             grown == [p EXCEPT !.radius = p.initialRadius
                                  + Mul(modes.bubble.size - p.initialRadius, ratio)]
         IN IF modes.bubble.opacity # Undefined /\ modes.bubble.opacity # 0
            THEN [grown EXCEPT !.opacity = p.initialOpacity
                                 + Mul(modes.bubble.opacity - p.initialOpacity, ratio)]
            ELSE grown
       ELSE IF mode = "repulse"
       THEN
         LET force == Div(modes.repulse.distance - dist, modes.repulse.distance)
             \* Math.cos and Math.sin of Math.atan2(dy, dx)
             cosAngle == IF dist = 0 THEN FP ELSE Div(dx, dist)
             sinAngle == IF dist = 0 THEN 0 ELSE Div(dy, dist)
         IN [p EXCEPT !.x = p.x + Mul(Mul(cosAngle, force), 10 * FP),
                      !.y = p.y + Mul(Mul(sinAngle, force), 10 * FP)]
       ELSE p

\* The identities of the particles the hover effect of a tick applies to.
HoverTargets(qt, mouse, config, particles) ==
    IF ~mouse.active \/ ~config.interactivity.events.onhover.enable THEN {}
    ELSE
      LET queryDist == QueryDist(config)
          searchArea == Boundary(mouse.x - queryDist, mouse.y - queryDist,
                                 queryDist * 2, queryDist * 2)
          neighbors == Query(qt, searchArea, << >>)
      IN { neighbors[i].id :
             i \in { j \in DOMAIN neighbors :
                       DistSq(neighbors[j], mouse) < Mul(queryDist, queryDist) } }

\* applyInteractions(qtree, mouse, config, ctx, allParticles): the lines the
\* grab mode strokes, in the order of the neighbors.
GrabLines(qt, mouse, config, particles) ==
    IF \/ ~mouse.active
       \/ ~config.interactivity.events.onhover.enable
       \/ config.interactivity.events.onhover.mode # "grab"
    THEN << >>
    ELSE
      LET grabDist == config.interactivity.modes.grab.distance
          searchArea == Boundary(mouse.x - grabDist, mouse.y - grabDist,
                                 grabDist * 2, grabDist * 2)
          neighbors == Query(qt, searchArea, << >>)
          near == SelectSeq(neighbors,
                            LAMBDA q : DistSq(q, mouse) < Mul(grabDist, grabDist))
      IN [k \in DOMAIN near |->
            LET q == near[k]
                opacity == FP - Div(Sqrt(DistSq(q, mouse)), grabDist)
            IN [kind |-> "line", id |-> q.id, x |-> q.x, y |-> q.y,
                mx |-> mouse.x, my |-> mouse.y,
                alpha |-> Mul(opacity, FP \div 2)]]

\* applyInteractions(qtree, mouse, config, ctx, allParticles): the particles
\* afterwards.
ApplyInteractions(qt, mouse, config, particles) ==
    LET reset == IF config.interactivity.events.onhover.mode = "bubble"
                 THEN [i \in DOMAIN particles |-> BubbleReset(particles[i])]
                 ELSE particles
        targets == HoverTargets(qt, mouse, config, reset)
    IN [i \in DOMAIN reset |->
          IF reset[i].id \in targets THEN HoverEffect(reset[i], mouse, config)
          ELSE reset[i]]

(***************************************************************************)
(* State.                                                                  *)
(***************************************************************************)
VARIABLES
    \* Engine fields
    config,         \* this.config
    canvas,         \* this.canvas: [width, height] in pixels
    particles,      \* this.particles
    mouse,          \* this.mouse
    animationId,    \* this.animationId
    lastTimestamp,  \* this.lastTimestamp
    firstFrame,     \* this.firstFrame
    loaded,         \* this.loaded
    \* the host: listeners, frame callbacks, image loads, promises
    listeners,      \* the listeners attached: [target, type, fn]
    frames,         \* handles of the frame callbacks requested and not yet run
    nextFrame,      \* the handle requestAnimationFrame returns next
    nextId,         \* the identity of the next Particle constructed
    pendingLoads,   \* identities of the particles whose image is still loading
    joins,          \* the Promise.all of each init that has not settled yet
    randoms,        \* the values Math.random() returns
    surface,        \* what is painted on the canvas since it was last cleared
    \* observation
    phase,          \* the effect of index.tsx: constructed, running, destroyed
    onLoadedCalls,  \* how many times onLoaded was invoked
    lastClick,      \* the coordinates of the last click event
    hoverLog,       \* per tick so far, the particles its hover effect touched
    \* SpecQT
    qtree,          \* the QuadTree under test
    qlog,           \* the insert calls made, [p, ok], in order
    \* SpecMerge
    params,         \* the params object the component is given
    preset,         \* the name of the preset it is given
    merged          \* what deepMerge(DEFAULTS[preset], params) returned

engineVars == << config, canvas, particles, mouse, animationId, lastTimestamp,
                 firstFrame, loaded >>
hostVars == << listeners, frames, nextFrame, nextId, pendingLoads, joins, randoms,
              surface >>
obsVars == << phase, onLoadedCalls, lastClick, hoverLog >>
qtVars == << qtree, qlog >>
mergeVars == << params, preset, merged >>
vars == << engineVars, hostVars, obsVars, qtVars, mergeVars >>

engineVarsButLoaded == << config, canvas, particles, mouse, animationId,
                         lastTimestamp, firstFrame >>

(***************************************************************************)
(* Engine (classes/Engine.ts) and the Particles component (index.tsx).     *)
(***************************************************************************)

\* qtree.insert(p) for each particle of a list, from the k-th on.
RECURSIVE InsertAll(_, _, _)
InsertAll(qt, ps, k) ==
    IF k > Len(ps) THEN qt
    ELSE InsertAll(Insert(qt, ps[k]).tree, ps, k + 1)

\* An index kept from tick to tick, to which the particles are added and
\* from which none is taken: it still holds the particles the last tick
\* painted that have left the population since.
BuildTreeKeeping(ps, cv) ==
    LET painted == SelectSeq(surface, LAMBDA d : d.kind = "particle")
        gone == SelectSeq(painted, LAMBDA d : \A i \in DOMAIN ps : ps[i].id # d.id)
    IN InsertAll(NewQuadTree(Boundary(0, 0, cv.width * FP, cv.height * FP)),
                 gone \o ps, 1)

\* The QuadTree Engine.render builds from the particles.
BuildTree(ps, cv) ==
    InsertAll(NewQuadTree(Boundary(0, 0, cv.width * FP, cv.height * FP)), ps, 1)

\* The sizes the canvas element is laid out with (offsetWidth, offsetHeight).
CanvasSizes == { [width |-> 16, height |-> 16], [width |-> 32, height |-> 16] }

\* Pointer and click coordinates relative to the canvas.
PointerPoints == { [x |-> 4 * FP, y |-> 4 * FP], [x |-> 12 * FP, y |-> 8 * FP] }

\* Time between two frame callbacks: a frame at 60 Hz, a stall.
Elapsed == { 1667, 15000 }

\* The PERFORMANCE CAP of calculateParticleCount.
ParticleCap == 2000

\* calculateParticleCount with the density setting ignored.
CalculateParticleCountFixed(cfg, cv) == cfg.number.value

\* calculateParticleCount without the cap.
CalculateParticleCountUncapped(cfg, cv) ==
    IF ~cfg.number.density.enable THEN cfg.number.value
    ELSE (cv.width * cv.height * cfg.number.value)
         \div Max(cfg.number.density.area, 1)

\* Engine.calculateParticleCount()
CalculateParticleCount(cfg, cv) ==
    IF ~cfg.number.density.enable THEN cfg.number.value
    ELSE
      LET canvasArea == cv.width * cv.height
          densityArea == Max(cfg.number.density.area, 1)
          count == (canvasArea * cfg.number.value) \div densityArea
      IN Min(count, ParticleCap)

\* The draws of Math.random() one Particle constructor makes; a draw whose
\* value the configuration does not use is fixed.
Draws(cfg, positioned, rs) ==
    LET any == CHOOSE r \in rs : \A o \in rs : r <= o
        If(used) == IF used THEN rs ELSE { any }
        oRandomized == cfg.opacity.anim.enable /\ ~cfg.opacity.anim.sync
        sRandomized == cfg.size.anim.enable /\ ~cfg.size.anim.sync
    IN [x : If(~positioned), y : If(~positioned),
        opacity : If(oRandomized \/ cfg.opacity.random),
        opacityDirection : If(oRandomized),
        size : If(sRandomized \/ cfg.size.random),
        sizeDirection : If(sRandomized),
        rotation : If(cfg.rotate.enable
                      /\ ((cfg.rotate.anim.enable /\ ~cfg.rotate.anim.sync)
                          \/ cfg.rotate.random)),
        sway : If(cfg.sway.enable /\ cfg.sway.random),
        dirX : If(cfg.move.enable /\ cfg.move.direction.random),
        dirY : If(cfg.move.enable /\ cfg.move.direction.random),
        speed : If(cfg.move.enable /\ cfg.move.randomized.enable)]

\* New particles constructed with the preset in place of the engine's
\* configuration.
SpawnFromPreset(count, first, cfg, cv, position, rs) ==
    LET n == Max(count, 0)
    IN { [i \in 1..n |-> NewParticle(cv, DEFAULTS, position, first + i - 1, f[i])] :
           f \in [1..n -> Draws(cfg, position # NoPosition, rs)] }

\* The lists of count new particles, identities from first on, one list for
\* each outcome of the draws.
Spawn(count, first, cfg, cv, position, rs) ==
    LET n == Max(count, 0)
    IN { [i \in 1..n |-> NewParticle(cv, cfg, position, first + i - 1, f[i])] :
           f \in [1..n -> Draws(cfg, position # NoPosition, rs)] }

\* The identities of a list of particles.
Ids(ps) == { ps[i].id : i \in DOMAIN ps }

\* The image loads started by constructing the particles ps.
Loads(ps, cfg) == IF LoadsImage(cfg) THEN Ids(ps) ELSE {}

\* The callback Engine.init passes to Promise.all(...).then, without its guard.
JoinCallbackUnguarded(st) == [loaded |-> TRUE, calls |-> st.calls + 1]

\* The callback Engine.init passes to Promise.all(...).then.
JoinCallback(st) ==
    IF ~st.loaded THEN [loaded |-> TRUE, calls |-> st.calls + 1] ELSE st

\* The callbacks of the joins in js run one after the other.
RECURSIVE RunCallbacks(_, _)
RunCallbacks(js, st) ==
    IF js = {} THEN st
    ELSE LET j == CHOOSE k \in js : TRUE
         IN RunCallbacks(js \ {j}, JoinCallback(st))

\* The microtasks that end a task: every Promise.all whose promises have all
\* settled runs its callback.
Settle(js, pending) ==
    LET ready == { j \in js : j \cap pending = {} }
        st == RunCallbacks(ready, [loaded |-> loaded, calls |-> onLoadedCalls])
    IN /\ joins' = js \ ready
       /\ loaded' = st.loaded
       /\ onLoadedCalls' = st.calls

\* The listeners Engine.bindEvents attaches.  The pointer-move listener is an
\* arrow function created at the call.
BindEvents(cfg) ==
    LET target == IF cfg.interactivity.detect_on = "window" THEN "window" ELSE "canvas"
    IN { [target |-> target, type |-> "mousemove", fn |-> "arrow@bindEvents"],
         [target |-> target, type |-> "mouseleave", fn |-> "handleMouseLeave"],
         [target |-> "window", type |-> "resize", fn |-> "handleResize"],
         [target |-> "canvas", type |-> "click", fn |-> "handleClick"] }

\* The listeners Engine.destroy asks to remove.  The pointer-move listener it
\* passes is an arrow function created at the call.
UnbindEvents(cfg) ==
    LET target == IF cfg.interactivity.detect_on = "window" THEN "window" ELSE "canvas"
    IN { [target |-> target, type |-> "mousemove", fn |-> "arrow@destroy"],
         [target |-> target, type |-> "mouseleave", fn |-> "handleMouseLeave"],
         [target |-> "window", type |-> "resize", fn |-> "handleResize"],
         [target |-> "canvas", type |-> "click", fn |-> "handleClick"] }

\* A listener for events of the type is attached.
Listening(type) == \E l \in listeners : l.type = type

\* The state after new Engine(canvas, params, preset, onLoaded), for the
\* configurations cfgs, the outcomes rs of Math.random() and the canvas
\* sizes.
EngineInit(cfgs, rs, sizes) ==
    /\ config \in cfgs
    /\ canvas \in sizes
    /\ randoms = rs
    /\ particles \in Spawn(CalculateParticleCount(config, canvas), 1, config,
                           canvas, NoPosition, rs)
    /\ nextId = Len(particles) + 1
    /\ mouse = [x |-> 0, y |-> 0, active |-> FALSE]
    /\ animationId = 0
    /\ lastTimestamp = 0
    /\ firstFrame = TRUE
    /\ loaded = FALSE
    /\ listeners = BindEvents(config)
    /\ frames = {}
    /\ nextFrame = 1
    /\ pendingLoads = Loads(particles, config)
    /\ joins = { Ids(particles) }
    /\ phase = "constructed"
    /\ onLoadedCalls = 0
    /\ lastClick = [x |-> 0, y |-> 0]
    /\ hoverLog = << >>
    /\ surface = << >>

\* elapsed / (1000 / 60)
Delta(elapsed) == Div(elapsed, Div(1000 * FP, 60 * FP))

\* The elapsed time of render without the cap.
ElapsedUncapped(timestamp) == timestamp - lastTimestamp

\* The time Engine.render lets pass for a tick at timestamp.
ElapsedUsed(timestamp) ==
    LET elapsed == timestamp - lastTimestamp
    IN IF elapsed > 100 * FP THEN 1667 ELSE elapsed

\* The particles after the simulation steps of one tick of Engine.render.
Tick(ps, delta, cfg, cv, ms) ==
    LET qt == BuildTree(ps, cv)
        attracted == ApplyAttraction(ps, cfg, qt)
        touched == ApplyInteractions(qt, ms, cfg, attracted)
    IN [i \in DOMAIN touched |-> Update(touched[i], delta, cv, cfg)]

\* One round of the loop of Engine.render with the draw made first.
DrawAndUpdate(q, delta, cv, cfg) == Draw(q, cfg)

\* One round of the loop of Engine.render: p.update(delta), then
\* p.draw(ctx); what the round paints.
UpdateAndDraw(q, delta, cv, cfg) == Draw(Update(q, delta, cv, cfg), cfg)

\* The canvas after one tick of Engine.render: cleared, then the lines of
\* applyInteractions, then what each round of the loop paints.
Painted(ps, delta, cfg, cv, ms) ==
    LET qt == BuildTree(ps, cv)
        attracted == ApplyAttraction(ps, cfg, qt)
        touched == ApplyInteractions(qt, ms, cfg, attracted)
    IN GrabLines(qt, ms, cfg, attracted)
       \o [i \in DOMAIN touched |-> UpdateAndDraw(touched[i], delta, cv, cfg)]

\* The identities of the particles the hover effect of that tick is applied
\* to.
Hovered(ps, cfg, cv, ms) ==
    LET qt == BuildTree(ps, cv)
    IN HoverTargets(qt, ms, cfg, ApplyAttraction(ps, cfg, qt))

\* Engine.render with a first frame that ticks like every other.
RenderFirstTicks(timestamp, fs) ==
    /\ lastTimestamp' = timestamp
    /\ firstFrame' = FALSE
    /\ particles' = Tick(particles, Delta(ElapsedUsed(timestamp)), config,
                         canvas, mouse)
    /\ animationId' = nextFrame
    /\ frames' = fs \cup { nextFrame }
    /\ nextFrame' = nextFrame + 1
    /\ hoverLog' = Append(hoverLog, Hovered(particles, config, canvas, mouse))
    /\ surface' = Painted(particles, Delta(ElapsedUsed(timestamp)), config,
                          canvas, mouse)

\* Engine.render with two calls of requestAnimationFrame at its end.
RenderRequestingTwice(timestamp, fs) ==
    /\ lastTimestamp' = timestamp
    /\ firstFrame' = FALSE
    /\ particles' = IF firstFrame THEN particles
                    ELSE Tick(particles, Delta(ElapsedUsed(timestamp)), config,
                              canvas, mouse)
    /\ animationId' = nextFrame + 1
    /\ frames' = fs \cup { nextFrame, nextFrame + 1 }
    /\ nextFrame' = nextFrame + 2
    /\ hoverLog' = IF firstFrame THEN hoverLog
                   ELSE Append(hoverLog, Hovered(particles, config, canvas, mouse))
    /\ surface' = IF firstFrame THEN surface
                  ELSE Painted(particles, Delta(ElapsedUsed(timestamp)), config,
                               canvas, mouse)

\* Engine.render(timestamp), with the frame callbacks fs requested and not
\* yet run.
Render(timestamp, fs) ==
    /\ lastTimestamp' = timestamp
    /\ firstFrame' = FALSE
    /\ particles' = IF firstFrame THEN particles
                    ELSE Tick(particles, Delta(ElapsedUsed(timestamp)), config,
                              canvas, mouse)
    /\ animationId' = nextFrame
    /\ frames' = fs \cup { nextFrame }
    /\ nextFrame' = nextFrame + 1
    /\ hoverLog' = IF firstFrame THEN hoverLog
                   ELSE Append(hoverLog, Hovered(particles, config, canvas, mouse))
    /\ surface' = IF firstFrame THEN surface
                  ELSE Painted(particles, Delta(ElapsedUsed(timestamp)), config,
                               canvas, mouse)

\* index.tsx: engine.render() right after the construction; the effect ends
\* and the microtasks run.
StartRender ==
    /\ phase = "constructed"
    /\ phase' = "running"
    /\ Render(0, frames)
    /\ Settle(joins, pendingLoads)
    /\ UNCHANGED << config, canvas, mouse, listeners, nextId, pendingLoads,
                    randoms, lastClick, qtVars, mergeVars >>

\* A requested frame callback runs Engine.render at a timestamp later by one
\* of the times; at most maxFrames callbacks are requested in a run.
Frame(maxFrames, times) ==
    /\ nextFrame <= maxFrames
    /\ \E h \in frames, e \in times : Render(lastTimestamp + e, frames \ { h })
    /\ UNCHANGED << config, canvas, mouse, loaded, listeners, nextId,
                    pendingLoads, joins, randoms, phase, onLoadedCalls,
                    lastClick, qtVars, mergeVars >>

\* A pointer-move event at one of the points: Engine.handleMouseMove.
MouseMove(points) ==
    /\ phase # "constructed"
    /\ Listening("mousemove")
    /\ \E pos \in points :
         mouse' = [x |-> pos.x, y |-> pos.y, active |-> TRUE]
    /\ UNCHANGED << config, canvas, particles, animationId, lastTimestamp,
                    firstFrame, loaded, hostVars, obsVars, qtVars, mergeVars >>

\* A pointer-leave event: Engine.handleMouseLeave.
MouseLeave ==
    /\ phase # "constructed"
    /\ Listening("mouseleave")
    /\ mouse' = [mouse EXCEPT !.active = FALSE]
    /\ UNCHANGED << config, canvas, particles, animationId, lastTimestamp,
                    firstFrame, loaded, hostVars, obsVars, qtVars, mergeVars >>

\* The comparator of handleClick: squared distance to this.mouse.
ClickDistance(q, ms) == DistSq(q, ms)

\* Array.prototype.sort with the comparator of handleClick: by distance,
\* particles of equal distance in their order in ps (the sort is stable).
SortByDistance(ps, ms) ==
    LET Before(i, j) ==
          \/ ClickDistance(ps[i], ms) < ClickDistance(ps[j], ms)
          \/ ClickDistance(ps[i], ms) = ClickDistance(ps[j], ms) /\ i < j
        Rank(i) == 1 + Cardinality({ j \in DOMAIN ps : Before(j, i) })
    IN [k \in DOMAIN ps |-> ps[CHOOSE i \in DOMAIN ps : Rank(i) = k]]

\* Array.prototype.splice(0, n): the list without its first n elements.
SpliceFront(ps, n) ==
    LET k == Min(Max(n, 0), Len(ps))
    IN [i \in 1..(Len(ps) - k) |-> ps[i + k]]

\* A click event on the canvas at one of the points: Engine.handleClick.  At
\* most maxSpawned particles are constructed in a run.
Click(points, maxSpawned) ==
    /\ phase # "constructed"
    /\ Listening("click")
    /\ \E pos \in points :
         /\ lastClick' = pos
         /\ LET onclick == config.interactivity.events.onclick
                modes == config.interactivity.modes
            IN IF ~onclick.enable
               THEN UNCHANGED << particles, nextId, pendingLoads >>
               ELSE IF onclick.mode = "push"
               THEN /\ nextId + modes.push.quantity - 1 <= maxSpawned
                    /\ \E new \in Spawn(modes.push.quantity, nextId, config, canvas,
                                        [x |-> mouse.x, y |-> mouse.y], randoms) :
                         /\ particles' = particles \o new
                         /\ nextId' = nextId + Len(new)
                         /\ pendingLoads' = pendingLoads \cup Loads(new, config)
               ELSE IF onclick.mode = "remove"
               THEN /\ particles' = SpliceFront(SortByDistance(particles, mouse),
                                                modes.remove.quantity)
                    /\ UNCHANGED << nextId, pendingLoads >>
               ELSE UNCHANGED << particles, nextId, pendingLoads >>
    /\ UNCHANGED << config, canvas, mouse, animationId, lastTimestamp, firstFrame,
                    loaded, listeners, frames, nextFrame, joins, randoms, phase,
                    onLoadedCalls, hoverLog, surface, qtVars, mergeVars >>

\* handleResize with an init that keeps the particles it finds.
ResizeAppending(sizes, maxSpawned) ==
    /\ phase # "constructed"
    /\ Listening("resize")
    /\ \E cv \in sizes :
         LET count == CalculateParticleCount(config, cv)
         IN /\ nextId + count - 1 <= maxSpawned
            /\ canvas' = cv
            /\ surface' = << >>
            /\ \E new \in Spawn(count, nextId, config, cv, NoPosition, randoms) :
                 /\ particles' = particles \o new
                 /\ nextId' = nextId + Len(new)
                 /\ pendingLoads' = pendingLoads \cup Loads(new, config)
                 /\ Settle(joins \cup { Ids(new) }, pendingLoads \cup Loads(new, config))
    /\ UNCHANGED << config, mouse, animationId, lastTimestamp, firstFrame,
                    listeners, frames, nextFrame, randoms, phase, lastClick,
                    hoverLog, qtVars, mergeVars >>

\* A resize event, the canvas laid out with one of the sizes:
\* Engine.handleResize, then the microtasks.  At most maxSpawned particles
\* are constructed in a run.
Resize(sizes, maxSpawned) ==
    /\ phase # "constructed"
    /\ Listening("resize")
    /\ \E cv \in sizes :
         LET count == CalculateParticleCount(config, cv)
         IN /\ nextId + count - 1 <= maxSpawned
            /\ canvas' = cv
            \* the assignment of canvas.width resets the bitmap
            /\ surface' = << >>
            /\ \E new \in Spawn(count, nextId, config, cv, NoPosition, randoms) :
                 /\ particles' = new
                 /\ nextId' = nextId + Len(new)
                 /\ pendingLoads' = pendingLoads \cup Loads(new, config)
                 /\ Settle(joins \cup { Ids(new) }, pendingLoads \cup Loads(new, config))
    /\ UNCHANGED << config, mouse, animationId, lastTimestamp, firstFrame,
                    listeners, frames, nextFrame, randoms, phase, lastClick,
                    hoverLog, qtVars, mergeVars >>

\* The settling of an image without the microtasks that follow it.
ImageSettledUnnoticed(id) ==
    /\ id \in pendingLoads
    /\ pendingLoads' = pendingLoads \ { id }
    /\ UNCHANGED << engineVars, listeners, frames, nextFrame, nextId, joins,
                    randoms, phase, onLoadedCalls, lastClick, hoverLog, surface,
                    qtVars, mergeVars >>

\* The image of a particle settles (onload or onerror resolve the promise),
\* then the microtasks run.
ImageSettled(id) ==
    /\ id \in pendingLoads
    /\ pendingLoads' = pendingLoads \ { id }
    /\ Settle(joins, pendingLoads \ { id })
    /\ UNCHANGED << engineVarsButLoaded, listeners, frames, nextFrame, nextId,
                    randoms, phase, lastClick, hoverLog, surface, qtVars, mergeVars >>

\* img.onload
ImageLoad == \E id \in pendingLoads : ImageSettled(id)

\* img.onerror
ImageError == \E id \in pendingLoads : ImageSettled(id)

\* cancelAnimationFrame as a call that cancels nothing.
CancelNothing(fs, id) == fs

\* cancelAnimationFrame(id): the callbacks still requested.
CancelAnimationFrame(fs, id) == fs \ { id }

\* The cleanup of the effect of index.tsx: Engine.destroy().
Destroy ==
    /\ phase = "running"
    /\ phase' = "destroyed"
    /\ frames' = CancelAnimationFrame(frames, animationId)
    /\ listeners' = listeners \ UnbindEvents(config)
    /\ particles' = << >>
    /\ UNCHANGED << config, canvas, mouse, animationId, lastTimestamp, firstFrame,
                    loaded, nextFrame, nextId, pendingLoads, joins, randoms,
                    onLoadedCalls, lastClick, hoverLog, surface, qtVars, mergeVars >>

(***************************************************************************)
(* deepMerge (utils/config) and the values it works on.  A JavaScript      *)
(* value is a record tagged with its kind: an object holds a function from *)
(* its keys to values, an array its items, a string its characters.        *)
(***************************************************************************)

\* undefined
JSUndefined == [kind |-> "undefined"]

\* A number or a boolean.
Num(n) == [kind |-> "number", n |-> n]
Bool(b) == [kind |-> "boolean", b |-> b]

\* A string, given by its characters.
Str(chars) == [kind |-> "string", chars |-> chars]

\* An array, given by its items.
Arr(items) == [kind |-> "array", items |-> items]

\* An object, given by the function from its own keys to their values.
Obj(f) == [kind |-> "object", f |-> f]

\* The property key of an array index.
IndexKey(i) == << "0", "1", "2", "3", "4", "5", "6", "7" >>[i + 1]

\* The own enumerable properties of an indexed list of values.
Indexed(items) ==
    [k \in { IndexKey(i - 1) : i \in DOMAIN items } |->
       items[CHOOSE i \in DOMAIN items : IndexKey(i - 1) = k]]

\* { ...v }: the own enumerable properties a spread copies.
Spread(v) ==
    IF v.kind = "object" THEN v.f
    ELSE IF v.kind = "array" THEN Indexed(v.items)
    ELSE IF v.kind = "string"
    THEN Indexed([i \in DOMAIN v.chars |-> Str(<< v.chars[i] >>)])
    ELSE << >>

\* v instanceof Object
InstanceOfObject(v) == v.kind \in { "object", "array" }

\* key in v, for an object or an array v.
KeyIn(key, v) == key \in DOMAIN Spread(v) \/ (v.kind = "array" /\ key = "length")

\* v[key]
Get(v, key) ==
    IF key \in DOMAIN Spread(v) THEN Spread(v)[key]
    ELSE IF key = "length" /\ v.kind = "array" THEN Num(Len(v.items))
    ELSE IF key = "length" /\ v.kind = "string" THEN Num(Len(v.chars))
    ELSE JSUndefined

\* What a call that throws a TypeError yields.
JSTypeError == [kind |-> "TypeError"]

\* deepMerge(target, source)
RECURSIVE DeepMerge(_, _)
DeepMerge(target, source) ==
    LET own == Spread(target)
        keys == DOMAIN Spread(source)
        nested == { key \in keys : InstanceOfObject(Get(source, key)) }
        Value(key) ==
          IF key \notin keys THEN own[key]
          ELSE IF key \in nested /\ KeyIn(key, target)
          THEN DeepMerge(Get(target, key), Get(source, key))
          ELSE Get(source, key)
        result == [key \in DOMAIN own \cup keys |-> Value(key)]
    IN \* the in operator throws on a target that is not an object
       IF nested # {} /\ ~InstanceOfObject(target) THEN JSTypeError
       ELSE IF \E key \in DOMAIN result : result[key] = JSTypeError THEN JSTypeError
       ELSE Obj(result)

\* The leaves of DEFAULTS that take part in the merges explored: the number
\* of particles, the color, the shape and the randomized speed, for the
\* presets default and snow.
PresetTable ==
    [default |->
       Obj([number |-> Obj([value |-> Num(50),
                            density |-> Obj([enable |-> Bool(TRUE),
                                             area |-> Num(800)])]),
            color |-> Obj([value |-> Str(<< "#", "f", "f", "f", "f", "f", "f" >>)]),
            shape |-> Obj([type |-> Str(<< "c", "i", "r", "c", "l", "e" >>)]),
            move |-> Obj([speed |-> Num(2),
                          randomized |-> Obj([enable |-> Bool(FALSE)])])]),
     snow |->
       Obj([number |-> Obj([value |-> Num(683),
                            density |-> Obj([enable |-> Bool(TRUE),
                                             area |-> Num(499)])]),
            color |-> Obj([value |-> Str(<< "#", "b", "f", "f", "8", "f", "f" >>)]),
            shape |-> Obj([type |-> Str(<< "c", "i", "r", "c", "l", "e" >>),
                           images |-> Arr(<< >>),
                           polygon |-> Obj([sides |-> Num(4)])]),
            move |-> Obj([speed |-> Num(1),
                          randomized |-> Obj([enable |-> Bool(FALSE)])])])]

\* Array.isArray(this.p.color.value) ? this.p.color.value[0]
\* : this.p.color.value
ColorCache(cfg) ==
    LET value == Get(Get(cfg, "color"), "value")
    IN IF value.kind = "array" THEN Get(value, "0") ELSE value

\* shape.type === "image" && shape.images?.length: the number of images a
\* particle chooses from, 0 when the test fails.
ImageChoices(cfg) ==
    LET shape == Get(cfg, "shape")
        images == Get(shape, "images")
        length == IF images = JSUndefined THEN JSUndefined ELSE Get(images, "length")
    IN IF Get(shape, "type") = Str(<< "i", "m", "a", "g", "e" >>)
          /\ length.kind = "number"
       THEN length.n ELSE 0

\* No merge is under test in the other specifications.
MergeIdle ==
    /\ params = JSUndefined
    /\ preset = "default"
    /\ merged = JSUndefined

(***************************************************************************)
(* SpecQT: a QuadTree driven by arbitrary insert calls.                    *)
(***************************************************************************)

\* The most insert calls made on one tree.
MaxInserts == 9

\* Root boundaries; their sides halve exactly down to the depth reached.
QTRoots == { Boundary(0, 0, 16, 16), Boundary(0, 0, 16, 8) }

\* Positions inserted: a corner shared by quadrants, a point of the root's
\* edge, and a point outside the root.
QTPoints == { <<8, 8>>, <<16, 8>>, <<17, 3>> }

\* Query ranges: covering, partial, touching an edge only, disjoint, a point.
QTRanges ==
    { Boundary(-1, -1, 20, 20), Boundary(0, 0, 16, 16), Boundary(8, 8, 8, 8),
      Boundary(0, 0, 7, 7), Boundary(8, 0, 0, 4), Boundary(20, 20, 2, 2),
      Boundary(16, 0, 4, 16) }

\* The engine of SpecQT is constructed and left alone.
QTConfig == [DEFAULTS EXCEPT !.number.density.enable = FALSE, !.number.value = 0]

InitQT ==
    /\ EngineInit({ QTConfig }, { 0 }, { [width |-> 16, height |-> 16] })
    /\ qtree \in { NewQuadTree(b) : b \in QTRoots }
    /\ qlog = << >>
    /\ MergeIdle

\* No QuadTree is under test in the specifications of the engine.
QTIdle ==
    /\ qtree = NewQuadTree(Boundary(0, 0, 0, 0))
    /\ qlog = << >>

\* qtree.insert(p) for a fresh particle p at any of the positions.
QTInsert ==
    /\ Len(qlog) < MaxInserts
    /\ \E pos \in QTPoints :
         LET p == [id |-> Len(qlog) + 1, x |-> pos[1], y |-> pos[2]]
             r == Insert(qtree, p)
         IN /\ qtree' = r.tree
            /\ qlog' = Append(qlog, [p |-> p, ok |-> r.ok])
    /\ UNCHANGED << engineVars, hostVars, obsVars, mergeVars >>

NextQT == QTInsert

SpecQT == InitQT /\ [][NextQT]_vars

\* The particles whose insert returned true.
QTAccepted == { qlog[i].p : i \in { j \in DOMAIN qlog : qlog[j].ok } }

\* A sequence without repeated elements.
NoDuplicates(s) == \A i, j \in DOMAIN s : s[i] = s[j] => i = j

\* The position of p lies inside the rectangle r, its edges included.
InsideInclusive(r, p) ==
    r.x <= p.x /\ p.x <= r.x + r.w /\ r.y <= p.y /\ p.y <= r.y + r.h

\* C1: query(range) returns exactly the particles whose insert returned true
\* and whose position lies inside the range (edges inclusive), each exactly
\* once; a range covering the root boundary returns the whole inserted set.
C1_QueryExact ==
    \A range \in QTRanges :
      LET found == Query(qtree, range, << >>)
      IN /\ NoDuplicates(found)
         /\ Range(found) = { p \in QTAccepted : InsideInclusive(range, p) }
         /\ (/\ range.x <= qtree.boundary.x
             /\ range.y <= qtree.boundary.y
             /\ range.x + range.w >= qtree.boundary.x + qtree.boundary.w
             /\ range.y + range.h >= qtree.boundary.y + qtree.boundary.h)
            => Range(found) = QTAccepted

\* C1 witness: a subdivided tree that refused an insert and answers a
\* partial range with some, but not all, of its particles.
C1_Witness ==
    /\ Depth(qtree) >= 1
    /\ \E i \in DOMAIN qlog : ~qlog[i].ok
    /\ \E range \in QTRanges :
         LET found == Range(Query(qtree, range, << >>))
         IN found # {} /\ found # QTAccepted

(***************************************************************************)
(* Spec: the life of an engine whose particles load images: frames,        *)
(* pointer events, clicks, resizes, image loads and the destruction.       *)
(***************************************************************************)

\* A configuration without motion or animation, for the specifications that
\* are not about them.
StillConfig ==
    [DEFAULTS EXCEPT !.number = [value |-> 1, density |-> [enable |-> FALSE, area |-> 800000]],
                     !.size.value = 1 * FP,
                     !.size.random = FALSE,
                     !.rotate.enable = FALSE,
                     !.move.enable = FALSE,
                     !.sway.enable = FALSE,
                     !.depthBlur.enable = FALSE,
                     !.interactivity.events.onhover.enable = FALSE,
                     !.interactivity.modes.push.quantity = 1,
                     !.interactivity.modes.remove.quantity = 1]

\* Particles drawn as images, with clicks that push, remove or do nothing;
\* and circles whose number follows the canvas: one on 16 x 16 pixels, two
\* on 32 x 16.
LifeConfigs ==
    LET images == [StillConfig EXCEPT !.shape = [type |-> "image", images |-> 2]]
    IN { images,
         [StillConfig EXCEPT !.number.density = [enable |-> TRUE, area |-> 256]],
         [images EXCEPT !.interactivity.events.onclick.mode = "remove"],
         [images EXCEPT !.interactivity.events.onclick.enable = FALSE,
                        !.interactivity.detect_on = "window"] }

\* The most frame callbacks requested in a run of Spec.
MaxFrames == 2

\* The most particles constructed in a run of Spec.
MaxSpawned == 3

\* Where the pointer moves and clicks in Spec.
LifePoints == { [x |-> 4 * FP, y |-> 4 * FP] }

Init ==
    /\ EngineInit(LifeConfigs, { 0 }, CanvasSizes)
    /\ QTIdle
    /\ MergeIdle

Next ==
    \/ StartRender
    \/ Frame(MaxFrames, Elapsed)
    \/ MouseMove(LifePoints)
    \/ MouseLeave
    \/ Click(LifePoints, MaxSpawned)
    \/ Resize(CanvasSizes, MaxSpawned)
    \/ ImageLoad
    \/ ImageError
    \/ Destroy

Spec == Init /\ [][Next]_vars

\* C3: over the whole life of an engine, under any sequence of
\* initialization, resizes, clicks and image-load completions, onLoaded is
\* invoked at most once.
C3_LoadedAtMostOnce == onLoadedCalls <= 1

\* C3 witness: the Promise.all of the construction and that of a later resize
\* have both settled, and onLoaded was invoked once.
C3_Witness ==
    /\ onLoadedCalls = 1
    /\ joins = {}
    /\ pendingLoads = {}
    /\ Len(particles) = 1
    /\ particles[1].id > 1

\* C4: once the engine is destroyed, onLoaded is not invoked any more, in
\* whatever order the image loads still pending settle.
C4_NoNotificationAfterDestroy ==
    [][phase = "destroyed" => onLoadedCalls' = onLoadedCalls]_vars

\* C5: after destroy no pointer-move, pointer-leave, click or resize event
\* changes the pointer state or the particle population of the engine.
C5_NoEventAfterDestroy ==
    [][phase = "destroyed" => (mouse' = mouse /\ particles' = particles)]_vars

\* C6: once an engine whose render loop was started is destroyed, no frame
\* callback is pending, no tick runs and no frame callback is requested.
C6_DestroyedIsTerminal ==
    /\ [](phase = "destroyed" => frames = {})
    /\ [][phase = "destroyed" =>
            /\ lastTimestamp' = lastTimestamp
            /\ nextFrame' = nextFrame
            /\ frames' = frames]_vars

\* C6 witness: an engine destroyed while its render loop had a frame callback
\* requested and more frames to come.
C6_Witness ==
    /\ phase = "destroyed"
    /\ animationId >= 1
    /\ nextFrame <= MaxFrames
    /\ frames = {}

(***************************************************************************)
(* SpecClick: clicks that push or remove particles, on a population of     *)
(* three particles at rest.                                                *)
(***************************************************************************)

\* The most particles constructed in a run of SpecClick.
MaxSpawnedClick == 5

ClickConfigs ==
    LET three == [StillConfig EXCEPT !.number.value = 3,
                                     !.interactivity.modes.push.quantity = 2,
                                     !.interactivity.modes.remove.quantity = 2]
    IN { three, [three EXCEPT !.interactivity.events.onclick.mode = "remove"] }

InitClick ==
    /\ EngineInit(ClickConfigs, { 0, FP \div 2 }, { [width |-> 16, height |-> 16] })
    /\ QTIdle
    /\ MergeIdle

NextClick ==
    \/ StartRender
    \/ MouseMove(PointerPoints)
    \/ MouseLeave
    \/ Click(PointerPoints, MaxSpawnedClick)

SpecClick == InitClick /\ [][NextClick]_vars

\* A step of SpecClick that is a click handled in push mode.
PushStep ==
    /\ config.interactivity.events.onclick.enable
    /\ config.interactivity.events.onclick.mode = "push"
    /\ nextId' # nextId

\* The push of a step adds the configured quantity of particles, all of them
\* at the point at, and leaves the particles there were as they are.
PushedAt(at) ==
    /\ Len(particles') = Len(particles) + config.interactivity.modes.push.quantity
    /\ \A i \in DOMAIN particles : particles'[i] = particles[i]
    /\ \A i \in DOMAIN particles' \ DOMAIN particles :
         particles'[i].x = at.x /\ particles'[i].y = at.y

\* C7: a click in push mode increases the particle count by exactly the push
\* quantity, every new particle is positioned at the click coordinates, and
\* no existing particle is removed or modified.
C7_PushAtClick == [][PushStep => PushedAt(lastClick')]_vars

\* What the code does at a push: the new particles are positioned at the
\* pointer position the engine recorded at the last pointer-move.
C7_PushAtPointer == [][PushStep => PushedAt(mouse)]_vars

\* A step of SpecClick that is a click handled in remove mode and changes
\* the population.
RemoveStep ==
    /\ config.interactivity.events.onclick.enable
    /\ config.interactivity.events.onclick.mode = "remove"
    /\ particles' # particles

\* The squared Euclidean distance of a particle to a point.
SquaredDistance(q, at) ==
    (q.x - at.x) * (q.x - at.x) + (q.y - at.y) * (q.y - at.y)

\* The particles of ps with the k smallest squared distances to the point
\* at, the earlier in ps first among particles of equal distance.
Nearest(ps, at, k) ==
    LET Before(i, j) ==
          \/ SquaredDistance(ps[i], at) < SquaredDistance(ps[j], at)
          \/ SquaredDistance(ps[i], at) = SquaredDistance(ps[j], at) /\ i < j
    IN { ps[i] : i \in { j \in DOMAIN ps :
                           Cardinality({ h \in DOMAIN ps : Before(h, j) }) < k } }

\* The remove of a step takes min(q, n) particles away, those nearest to the
\* point at, and keeps every other particle.
RemovedNearest(at) ==
    LET q == config.interactivity.modes.remove.quantity
        k == Min(q, Len(particles))
    IN /\ Len(particles') = Len(particles) - k
       /\ Range(particles') = Range(particles) \ Nearest(particles, at, k)

\* C8: a click in remove mode with quantity q on n particles removes exactly
\* min(q, n) particles, those with the smallest squared distance to the click
\* point, the earlier in list order among equals; the others remain.
C8_RemoveNearestToClick == [][RemoveStep => RemovedNearest(lastClick')]_vars

\* What the code does at a remove: the distances are taken to the pointer
\* position the engine recorded at the last pointer-move.
C8_RemoveNearestToPointer == [][RemoveStep => RemovedNearest(mouse)]_vars


(***************************************************************************)
(* SpecTick: ticks of an engine under each hover mode, with the pointer    *)
(* moving over the canvas and leaving it, and the oscillations on or off.  *)
(***************************************************************************)

\* The most frame callbacks requested in a run of SpecTick.
MaxFramesTick == 4

\* The times between two frames in SpecTick: 16.67 ms and 33.34 ms.
TickElapsed == { 1667, 3334 }

\* One particle (two in the first and the last configuration) of size 2 and
\* opacity 0.5;
\* the oscillations, where enabled, move the radius in [1, 2] by 0.4 and the
\* opacity in [0.1, 0.5] by 0.2 per tick; the hover modes reach 8 pixels
\* and a bubble grows particles to 4.  In one configuration the size minimum
\* equals the maximum.
TickConfigs ==
    LET base == [StillConfig EXCEPT
                   !.size.value = 2 * FP,
                   !.size.anim = [enable |-> FALSE, speed |-> 40 * FP,
                                  size_min |-> 1 * FP, sync |-> FALSE],
                   !.opacity.anim = [enable |-> FALSE, speed |-> 200 * FP,
                                     opacity_min |-> FP \div 10, sync |-> FALSE],
                   !.interactivity.events.onhover = [enable |-> TRUE,
                                                     mode |-> "bubble"],
                   !.interactivity.modes.grab.distance = 8 * FP,
                   !.interactivity.modes.repulse.distance = 8 * FP,
                   !.interactivity.modes.bubble = [distance |-> 8 * FP,
                                                   size |-> 4 * FP,
                                                   opacity |-> FP]]
        oscillating == [base EXCEPT !.size.anim.enable = TRUE,
                                    !.opacity.anim.enable = TRUE]
    IN { [base EXCEPT !.number.value = 2],
         oscillating,
         [base EXCEPT !.interactivity.events.onhover.enable = FALSE],
         [oscillating EXCEPT !.size.anim.size_min = 2 * FP,
                             !.interactivity.events.onhover.enable = FALSE],
         [base EXCEPT !.opacity.anim.enable = TRUE,
                      !.interactivity.modes.bubble.opacity = Undefined],
         [oscillating EXCEPT !.interactivity.events.onhover.mode = "repulse",
                             !.opacity.anim.enable = FALSE],
         [base EXCEPT !.interactivity.events.onhover.mode = "grab",
                      !.number.value = 2,
                      !.opacity.anim.enable = TRUE,
                      !.opacity.anim.sync = TRUE] }

InitTick ==
    /\ EngineInit(TickConfigs, { FP \div 4, (3 * FP) \div 4 },
                  { [width |-> 16, height |-> 16] })
    /\ QTIdle
    /\ MergeIdle

NextTick ==
    \/ StartRender
    \/ Frame(MaxFramesTick, TickElapsed)
    \/ MouseMove(PointerPoints)
    \/ MouseLeave

SpecTick == InitTick /\ [][NextTick]_vars

\* A step of Engine.render that is a tick: every call but the first.
TickStep == ~firstFrame /\ nextFrame' # nextFrame

\* A tick whose bubble effect is not followed by the clamp of the size
\* oscillation.
InflatingTick ==
    /\ config.interactivity.events.onhover.mode = "bubble"
    /\ config.interactivity.events.onhover.enable
    /\ mouse.active
    /\ ~config.size.anim.enable

\* Every particle of ps has its opacity in [0, 1] and its radius between the
\* configured minimum (0 without the oscillation) and hi.
WithinBounds(ps, hi) ==
    \A i \in DOMAIN ps :
      /\ ps[i].opacity >= 0
      /\ ps[i].opacity <= FP
      /\ ps[i].radius >= (IF config.size.anim.enable
                          THEN config.size.anim.size_min ELSE 0)
      /\ ps[i].radius <= hi

\* C2 as stated: after any tick every particle's radius lies within
\* [configured size minimum or 0, configured maximum size] and its opacity
\* within [0, 1].
C2_RadiusWithinConfigured ==
    [][TickStep => WithinBounds(particles', config.size.value)]_vars

\* C2 amended: after any tick every particle's opacity lies within [0, 1]
\* and its radius within [configured size minimum or 0, configured maximum
\* size], except after a tick in hover mode bubble with hover enabled, the
\* pointer active and the size oscillation disabled, where the radius is at
\* most the larger of the configured maximum size and the bubble size.
C2_BoundsAfterTick ==
    [][TickStep =>
         WithinBounds(particles',
                      IF InflatingTick
                      THEN Max(config.size.value,
                               config.interactivity.modes.bubble.size)
                      ELSE config.size.value)]_vars

\* A tick has grown a particle under the pointer beyond the configured
\* maximum size, and no further than the bubble size.
C2_Witness ==
    /\ Len(hoverLog) >= 1
    /\ hoverLog[Len(hoverLog)] # {}
    /\ config.interactivity.events.onhover.mode = "bubble"
    /\ ~config.size.anim.enable
    /\ \E i \in DOMAIN particles :
         /\ particles[i].id \in hoverLog[Len(hoverLog)]
         /\ particles[i].radius > config.size.value
         /\ particles[i].radius <= config.interactivity.modes.bubble.size

\* C9: with hover mode bubble, after any tick in which the pointer is
\* inactive or hover is disabled, every particle's radius equals its cached
\* initial radius and its opacity its cached initial opacity.
C9_BubbleDecays ==
    [][(/\ TickStep
        /\ config.interactivity.events.onhover.mode = "bubble"
        /\ (~mouse.active \/ ~config.interactivity.events.onhover.enable))
       => \A i \in DOMAIN particles' :
            /\ particles'[i].radius = particles'[i].initialRadius
            /\ particles'[i].opacity = particles'[i].initialOpacity]_vars

\* The tick before the last applied the bubble effect, the pointer left, and
\* after the last tick every particle is back at its cached values.
C9_Witness ==
    /\ config.interactivity.events.onhover.mode = "bubble"
    /\ ~mouse.active
    /\ Len(hoverLog) >= 2
    /\ hoverLog[Len(hoverLog) - 1] # {}
    /\ hoverLog[Len(hoverLog)] = {}
    /\ \A i \in DOMAIN particles :
         /\ particles[i].radius = particles[i].initialRadius
         /\ particles[i].opacity = particles[i].initialOpacity
         /\ particles[i].initialRadius # config.interactivity.modes.bubble.size

(***************************************************************************)
(* SpecPop: the size of the population, with configurations whose density  *)
(* formula gives more particles than the cap, under ticks, push clicks and *)
(* resizes.                                                                *)
(***************************************************************************)

\* The most frame callbacks requested in a run of SpecPop.
MaxFramesPop == 3

\* The most particles constructed in a run of SpecPop before a push click,
\* and before a resize.
MaxPushedPop == 2010
MaxSpawnedPop == 4010

\* A density area of 0.001 (or of 0, raised to 0.001) gives 8 (or 7)
\* particles per pixel: 2048 and 4096 (or 1792 and 3584) on the two canvas
\* sizes.  Clicks push 4
\* particles, or do nothing.  Without density the count is 2001.
PopConfigs ==
    LET dense == [StillConfig EXCEPT
                    !.number = [value |-> 8,
                                density |-> [enable |-> TRUE, area |-> 1]],
                    !.interactivity.modes.push.quantity = 4]
        quiet == [dense EXCEPT !.interactivity.events.onclick.enable = FALSE]
    IN { dense,
         quiet,
         [quiet EXCEPT !.number = [value |-> 7,
                                   density |-> [enable |-> TRUE, area |-> 0]]],
         [quiet EXCEPT !.number = [value |-> 2001,
                                   density |-> [enable |-> FALSE, area |-> 1]]] }

InitPop ==
    /\ EngineInit(PopConfigs, { 0 }, CanvasSizes)
    /\ QTIdle
    /\ MergeIdle

NextPop ==
    \/ StartRender
    \/ Frame(MaxFramesPop, { 1667 })
    \/ MouseMove(LifePoints)
    \/ Click(LifePoints, MaxPushedPop)
    \/ Resize(CanvasSizes, MaxSpawnedPop)

SpecPop == InitPop /\ [][NextPop]_vars

\* C10 as stated: the population holds at most 2000 particles after the
\* initialization and in every state reachable by ticks, clicks and resizes,
\* whatever the configuration.
C10_AtMost2000 == Len(particles) <= ParticleCap

\* Clicks of the configuration push particles.
PushesOnClick ==
    /\ config.interactivity.events.onclick.enable
    /\ config.interactivity.events.onclick.mode = "push"

\* A step that replaces the population by newly constructed particles: the
\* init of a resize.
ReinitStep ==
    /\ nextId' # nextId
    /\ \A i \in DOMAIN particles' : particles'[i].id >= nextId

\* C10 amended: with density enabled the population holds at most 2000
\* particles after the initialization and after every resize, and in every
\* state when clicks do not push; a tick never changes its size.  (A push
\* click adds its quantity without a cap, and a count configured with
\* density disabled is not capped.)
C10_CappedByDensity ==
    /\ []((config.number.density.enable /\ ~PushesOnClick)
          => Len(particles) <= ParticleCap)
    /\ [][(ReinitStep /\ config.number.density.enable)
          => Len(particles') <= ParticleCap]_vars
    /\ [][TickStep => Len(particles') = Len(particles)]_vars

\* A resize whose density formula gives more than the cap has left exactly
\* 2000 particles, and a tick has run since.
C10_Witness ==
    /\ config.number.density.enable
    /\ CalculateParticleCountUncapped(config, canvas) > ParticleCap
    /\ Len(particles) = ParticleCap
    /\ particles[1].id > ParticleCap
    /\ Len(hoverLog) >= 1

\* The sizing formula: the configured value without density, otherwise
\* min(2000, floor(width * height / (max(area, 0.001) * 1000) * value)).
RawDensityCount(cfg, cv) ==
    LET perThousand == IF cfg.number.density.area < 1 THEN 1
                       ELSE cfg.number.density.area
    IN (cfg.number.value * (cv.width * cv.height)) \div perThousand

SizingFormula(cfg, cv) ==
    IF cfg.number.density.enable
    THEN (IF RawDensityCount(cfg, cv) > 2000 THEN 2000 ELSE RawDensityCount(cfg, cv))
    ELSE cfg.number.value

\* No click and no resize has happened since the initialization.
OnlyInitialized ==
    /\ lastClick = [x |-> 0, y |-> 0]
    /\ \A i \in DOMAIN particles : particles[i].id = i
    /\ nextId = Len(particles) + 1

\* C11: after the initialization the population size equals the sizing
\* formula, and is exactly 2000 whenever the raw density result exceeds 2000.
C11_InitialCount ==
    OnlyInitialized =>
      /\ Len(particles) = SizingFormula(config, canvas)
      /\ (config.number.density.enable /\ RawDensityCount(config, canvas) > 2000)
           => Len(particles) = 2000

\* An initialization whose raw density result exceeds 2000 has left 2000
\* particles, and ticks have run since.
C11_Witness ==
    /\ OnlyInitialized
    /\ config.number.density.enable
    /\ RawDensityCount(config, canvas) = 4096
    /\ Len(particles) = 2000
    /\ phase = "running"
    /\ Len(hoverLog) >= 1

\* C15: after a resize the population contains none of the particles that
\* existed before it, pushed ones included, and its size equals the sizing
\* formula on the new canvas dimensions.
C15_ResizeReinitializes ==
    [][Resize(CanvasSizes, MaxSpawned)
       => /\ Ids(particles') \cap Ids(particles) = {}
          /\ Len(particles') = SizingFormula(config, canvas')]_vars

\* A resize has followed a push click: the one particle of the
\* initialization and the one pushed are gone, the one left is new.
C15_Witness ==
    /\ PushesOnClick
    /\ config.number.density.enable
    /\ lastClick # [x |-> 0, y |-> 0]
    /\ Len(particles) = 1
    /\ particles[1].id = 3
    /\ SizingFormula(config, canvas) = 1

(***************************************************************************)
(* More of SpecQT: the order of the inserts, and what one insert does.     *)
(***************************************************************************)

\* The most inserts whose every order is tried.
MaxPermuted == 5

\* The orders of the elements of a set.
RECURSIVE Orders(_)
Orders(S) ==
    IF S = {} THEN { << >> }
    ELSE UNION { { << x >> \o rest : rest \in Orders(S \ { x }) } : x \in S }

\* The tree that results when the particles offered are inserted in the
\* order perm into an empty tree of the same boundary.
InsertedInOrder(perm) ==
    InsertAll(NewQuadTree(qtree.boundary),
              [k \in DOMAIN qlog |-> qlog[perm[k]].p], 1)

\* The set a tree returns for each of the ranges.
Answers(t) == [range \in QTRanges |-> Range(Query(t, range, << >>))]

\* C16: for a fixed set of particles and a fixed range, the set query
\* returns is the same for every order in which the particles were inserted.
C16_OrderInvariant ==
    Len(qlog) <= MaxPermuted =>
      LET answers == Answers(qtree)
      IN \A perm \in Orders(DOMAIN qlog) : Answers(InsertedInOrder(perm)) = answers

\* Five particles at two positions have been inserted and the tree is
\* subdivided: which of them sits in the root depends on the order.
C16_Witness ==
    /\ Len(qlog) >= 5
    /\ Depth(qtree) >= 1
    /\ \E i, j \in DOMAIN qlog :
         /\ qlog[i].ok
         /\ qlog[j].ok
         /\ qlog[i].p.x # qlog[j].p.x
         /\ i < j
         /\ j <= Capacity

\* The particles stored in the nodes of a tree, node by node.
RECURSIVE Stored(_)
Stored(t) ==
    IF t = NoTree THEN << >>
    ELSE IF ~t.divided THEN t.particles
    ELSE t.particles \o Stored(t.northwest) \o Stored(t.northeast)
           \o Stored(t.southwest) \o Stored(t.southeast)

\* C20: insert on the root returns false and leaves the tree unchanged when
\* the position lies outside the root boundary; it returns true and stores
\* the particle in exactly one node when the position lies inside (edges
\* inclusive), however many particles the tree holds or share the position.
C20_InsertTotal ==
    [][Len(qlog') = Len(qlog) + 1 =>
         LET call == qlog'[Len(qlog')]
             before == Stored(qtree)
             after == Stored(qtree')
         IN /\ call.ok = InsideInclusive(qtree.boundary, call.p)
            /\ ~call.ok => qtree' = qtree
            /\ call.ok =>
                 /\ Len(after) = Len(before) + 1
                 /\ Cardinality({ i \in DOMAIN after : after[i] = call.p }) = 1
                 /\ Range(after) = Range(before) \cup { call.p }]_vars

\* The tree is subdivided, holds five or more particles at one position, a
\* particle of the root's edge, and has refused a particle outside the root.
C20_Witness ==
    /\ Depth(qtree) >= 1
    /\ \E i \in DOMAIN qlog : ~qlog[i].ok
    /\ Cardinality({ p \in QTAccepted : p.x = 8 /\ p.y = 8 }) >= 5
    /\ \E p \in QTAccepted : p.x = qtree.boundary.x + qtree.boundary.w

(***************************************************************************)
(* More of SpecTick: what a tick paints, and the first frame.              *)
(***************************************************************************)

C13_FirstFrameIdle ==
    /\ [][(firstFrame /\ nextFrame' # nextFrame) =>
            /\ particles' = particles
            /\ surface' = surface
            /\ hoverLog' = hoverLog
            /\ ~firstFrame'
            /\ frames' = frames \cup { animationId' }
            /\ animationId' \notin frames]_vars
    /\ [](firstFrame => (surface = << >> /\ hoverLog = << >>))

\* The first call of render has been made, nothing is painted and the next
\* frame is requested; the particles are as the constructor left them.
C13_Witness ==
    /\ ~firstFrame
    /\ nextFrame = 2
    /\ frames = { animationId }
    /\ lastTimestamp = 0
    /\ surface = << >>
    /\ hoverLog = << >>
    /\ Len(particles) = 2
    /\ \A i \in DOMAIN particles : particles[i].opacity = particles[i].initialOpacity

(***************************************************************************)
(* SpecMove: two particles of radius 1 that move by one pixel per frame    *)
(* across a canvas of 16 x 16 pixels, wrapping or bouncing at its edges,   *)
(* with frames that come on time, after 100 ms, and after a stall.         *)
(***************************************************************************)

\* The most frame callbacks requested in a run of SpecMove.
MaxFramesMove == 3

\* The times between two frames in SpecMove: 16.67 ms, 100 ms and 150 ms.
MoveElapsed == { 1667, 10000, 15000 }

\* The sway has no amplitude: it only accumulates delta in the sway phase.
MoveConfigs ==
    LET base == [StillConfig EXCEPT
                   !.number.value = 2,
                   !.move.enable = TRUE,
                   !.move.speed = 1 * FP,
                   !.move.direction.to = "bottom-right",
                   !.move.attract.rotateX = FP \div 100,
                   !.move.attract.rotateY = FP \div 100,
                   !.sway = [enable |-> TRUE, amplitude |-> 0,
                             frequency |-> 1 * FP, random |-> FALSE]]
    IN { base,
         [base EXCEPT !.move.direction.to = "top-left"],
         [base EXCEPT !.move.out_mode = "bounce"],
         [base EXCEPT !.move.out_mode = "bounce",
                      !.move.direction.to = "top-left"] }

InitMove ==
    /\ EngineInit(MoveConfigs, { 0, (3 * FP) \div 4 },
                  { [width |-> 16, height |-> 16] })
    /\ QTIdle
    /\ MergeIdle

NextMove ==
    \/ StartRender
    \/ Frame(MaxFramesMove, MoveElapsed)

SpecMove == InitMove /\ [][NextMove]_vars

\* The elapsed time the step used, in hundredths of a millisecond, as C14
\* states it: the time since the previous timestamp, or 16.67 ms when that
\* is more than 100 ms.
StatedElapsed ==
    IF lastTimestamp' - lastTimestamp > 100 * FP THEN 1667
    ELSE lastTimestamp' - lastTimestamp

\* delta: the elapsed time in frames of 1000 / 60 ms.
StatedDelta == (StatedElapsed * 60) \div 1000

\* C14: the elapsed time a tick uses is the time since the previous
\* timestamp when that is at most 100 ms, and 16.67 ms when it is more, so
\* delta never exceeds 6; the baseline advances to the current timestamp in
\* both cases.
C14_ElapsedCapped ==
    [][TickStep =>
         /\ lastTimestamp' > lastTimestamp
         /\ StatedDelta <= 6 * FP
         /\ \A i \in DOMAIN particles' :
              particles'[i].swayPhase - particles[i].swayPhase = StatedDelta]_vars

\* A tick after a stall of 150 ms has advanced the sway phase by one frame,
\* and the tick after it, 100 ms later, by six.
C14_Witness ==
    /\ lastTimestamp = 15000 + 10000
    /\ Len(hoverLog) = 2
    /\ \A i \in DOMAIN particles : particles[i].swayPhase = 1 * FP + 6 * FP

\* The coordinate c of a particle of radius r after the wrap on a canvas of
\* dimension d.
Wrapped(c, r, d) ==
    IF c - r > d THEN c - (d + 2 * r)
    ELSE IF c + r < 0 THEN c + (d + 2 * r)
    ELSE c

\* C17: with boundary mode wrap, a particle that after the integration lies
\* entirely beyond a canvas edge is translated by exactly (dimension + 2 *
\* radius) toward the opposite side; any other particle is not translated.
C17_WrapExact ==
    [][(TickStep /\ config.move.out_mode = "out") =>
         \A i \in DOMAIN particles' :
           LET q == particles[i]
           IN /\ particles'[i].x = Wrapped(q.x + Mul(q.vx, StatedDelta), q.radius,
                                           canvas.width * FP)
              /\ particles'[i].y = Wrapped(q.y + Mul(q.vy, StatedDelta), q.radius,
                                           canvas.height * FP)
              /\ particles'[i].vx = q.vx
              /\ particles'[i].vy = q.vy]_vars

\* After one tick of six frames to the bottom right, the particle that
\* started at x = 13 has left the canvas (19 - 1 > 16) and is drawn at
\* 19 - 18 = 1, and the one that started at x = -2 is drawn at 4.
C17_Witness ==
    /\ config.move.out_mode = "out"
    /\ config.move.direction.to = "bottom-right"
    /\ Len(hoverLog) = 1
    /\ \E i, j \in DOMAIN particles :
         /\ particles[i].x = 1 * FP
         /\ surface[i].x = 1 * FP
         /\ particles[j].x = 4 * FP

\* The coordinate and the velocity component of a particle of radius r
\* after the bounce between the walls 0 and d.
Bounced(c, v, r, d) ==
    IF c - r <= 0 /\ v < 0 THEN [c |-> r + (r - c), v |-> -v]
    ELSE IF c + r >= d /\ v > 0 THEN [c |-> d - r - (c + r - d), v |-> -v]
    ELSE [c |-> c, v |-> v]

\* C18: with boundary mode bounce, a particle whose edge is at or beyond a
\* wall while its velocity points toward that wall has that velocity
\* component negated and its position mirrored by the overlap; any other
\* particle keeps both.
C18_BounceExact ==
    [][(TickStep /\ config.move.out_mode = "bounce") =>
         \A i \in DOMAIN particles' :
           LET q == particles[i]
               bx == Bounced(q.x + Mul(q.vx, StatedDelta), q.vx, q.radius,
                             canvas.width * FP)
               by == Bounced(q.y + Mul(q.vy, StatedDelta), q.vy, q.radius,
                             canvas.height * FP)
           IN /\ particles'[i].x = bx.c
              /\ particles'[i].vx = bx.v
              /\ particles'[i].y = by.c
              /\ particles'[i].vy = by.v]_vars

\* A particle that set out to the bottom right has bounced off the right
\* wall and off the bottom wall.
C18_Witness ==
    /\ config.move.out_mode = "bounce"
    /\ config.move.direction.to = "bottom-right"
    /\ \E i \in DOMAIN particles :
         /\ particles[i].vx < 0
         /\ particles[i].vy < 0
         /\ particles[i].x + particles[i].radius <= canvas.width * FP
         /\ particles[i].y + particles[i].radius <= canvas.height * FP

\* C19: with attraction disabled, the attraction step leaves the velocity
\* and the position of every particle unchanged, whatever the population and
\* the index hold.
C19_NoAttraction ==
    ~config.move.attract.enable =>
      /\ ApplyAttraction(particles, config, BuildTree(particles, canvas)) = particles
      /\ ApplyAttraction(particles, config, NewQuadTree(Boundary(0, 0, 0, 0)))
           = particles

\* Two particles at different places of the canvas, both in the index, have
\* been through a tick.
C19_Witness ==
    /\ ~config.move.attract.enable
    /\ Len(hoverLog) >= 1
    /\ Len(particles) = 2
    /\ particles[1].x # particles[2].x
    /\ Len(Query(BuildTree(particles, canvas),
                 Boundary(0, 0, canvas.width * FP, canvas.height * FP), << >>)) = 2

(***************************************************************************)
(* SpecMerge: the configuration the Engine constructor computes, for       *)
(* params objects that give or leave out the number, the color (one or a   *)
(* list), the shape (with its images or its polygon) and the randomized    *)
(* speed, on either preset.                                                *)
(***************************************************************************)

\* The params objects explored.
UserParams ==
    LET Absent == [kind |-> "absent"]
        numbers == { Absent,
                     Obj([value |-> Num(80),
                          density |-> Obj([enable |-> Bool(FALSE),
                                           area |-> Num(800)])]) }
        colors == { Absent,
                    Obj([value |-> Str(<< "#", "f", "0", "0" >>)]),
                    Obj([value |-> Arr(<< Str(<< "#", "f", "0", "0" >>),
                                          Str(<< "#", "0", "f", "0" >>) >>)]) }
        shapes == { Absent,
                    Obj([type |-> Str(<< "i", "m", "a", "g", "e" >>),
                         images |-> Arr(<< Str(<< "a" >>), Str(<< "b" >>) >>)]),
                    Obj([type |-> Str(<< "p", "o", "l", "y", "g", "o", "n" >>),
                         polygon |-> Obj([sides |-> Num(6)])]) }
        moves == { Absent,
                   Obj([randomized |-> Obj([enable |-> Bool(TRUE),
                                            min |-> Num(1),
                                            max |-> Num(3)])]) }
        Given(n, c, sh, m) ==
          LET all == [number |-> n, color |-> c, shape |-> sh, move |-> m]
          IN [key \in { k \in DOMAIN all : all[k] # Absent } |-> all[key]]
    IN { Obj(Given(n, c, sh, m)) :
           n \in numbers, c \in colors, sh \in shapes, m \in moves }

InitMerge ==
    /\ EngineInit({ QTConfig }, { 0 }, { [width |-> 16, height |-> 16] })
    /\ QTIdle
    /\ params \in UserParams
    /\ preset \in DOMAIN PresetTable
    /\ merged = JSUndefined

\* this.config = deepMerge(DEFAULTS[preset], params)
MergeConfig ==
    /\ merged = JSUndefined
    /\ merged' = DeepMerge(PresetTable[preset], params)
    /\ UNCHANGED << engineVars, hostVars, obsVars, qtVars, params, preset >>

NextMerge == MergeConfig

SpecMerge == InitMerge /\ [][NextMerge]_vars

\* The paths from an object to its leaves: the values that are not objects.
RECURSIVE LeafPaths(_)
LeafPaths(v) ==
    IF v.kind # "object" THEN { << >> }
    ELSE UNION { { << key >> \o rest : rest \in LeafPaths(v.f[key]) } :
                 key \in DOMAIN v.f }

\* The value at a path of an object, undefined where the path leaves it.
RECURSIVE At(_, _)
At(v, path) ==
    IF path = << >> THEN v
    ELSE IF v.kind = "object" /\ Head(path) \in DOMAIN v.f
    THEN At(v.f[Head(path)], Tail(path))
    ELSE JSUndefined

\* C21: in the configuration every leaf the params specify, scalar or list,
\* has the value of the params in the same shape, and every leaf of the
\* preset the params leave unspecified has the value of the preset.
C21_MergedOntoPreset ==
    merged # JSUndefined =>
      /\ \A path \in LeafPaths(params) : At(merged, path) = At(params, path)
      /\ \A path \in LeafPaths(PresetTable[preset]) :
           At(params, path) = JSUndefined
             => At(merged, path) = At(PresetTable[preset], path)

\* What the code does: the statement holds of every leaf but the lists of
\* the params at a key the preset has too; there the configuration holds an
\* object that is not an array, with the items of the list under their
\* indices and, beyond them, what the preset's value spreads to.
C21_ListsMergedAsObjects ==
    merged # JSUndefined =>
      /\ \A path \in LeafPaths(params) :
           LET mine == At(params, path)
               theirs == At(PresetTable[preset], path)
           IN IF mine.kind = "array" /\ theirs # JSUndefined
              THEN /\ At(merged, path).kind = "object"
                   /\ \A i \in DOMAIN mine.items :
                        Get(At(merged, path), IndexKey(i - 1)) = mine.items[i]
                   /\ Get(At(merged, path), "length") = JSUndefined
              ELSE At(merged, path) = mine
      /\ \A path \in LeafPaths(PresetTable[preset]) :
           At(params, path) = JSUndefined
             => At(merged, path) = At(PresetTable[preset], path)

\* On the preset snow, params with two images have given a configuration
\* whose particles find no image to choose from.
C21_ImagesLost ==
    /\ preset = "snow"
    /\ ImageChoices(params) = 2
    /\ merged # JSUndefined
    /\ ImageChoices(merged) = 0

(***************************************************************************)
(* SpecIndex: the spatial index of a tick, for two particles at rest that  *)
(* are constructed one pixel outside the canvas or inside it, under each   *)
(* hover mode, with clicks that remove a particle, and resizes.            *)
(***************************************************************************)

\* The most frame callbacks requested in a run of SpecIndex.
MaxFramesIndex == 3

\* The most particles constructed in a run of SpecIndex.
MaxSpawnedIndex == 4

\* Particles of radius 1; the hover modes reach 8 pixels; a click removes
\* the nearest particle.
IndexConfigs ==
    LET base == [StillConfig EXCEPT
                   !.number.value = 2,
                   !.move.attract.rotateX = FP \div 100,
                   !.move.attract.rotateY = FP \div 100,
                   !.interactivity.events.onhover = [enable |-> TRUE,
                                                     mode |-> "grab"],
                   !.interactivity.events.onclick.mode = "remove",
                   !.interactivity.modes.grab.distance = 8 * FP,
                   !.interactivity.modes.repulse.distance = 8 * FP,
                   !.interactivity.modes.bubble = [distance |-> 8 * FP,
                                                   size |-> 4 * FP,
                                                   opacity |-> Undefined]]
    IN { base,
         [base EXCEPT !.interactivity.events.onhover.mode = "bubble"],
         [base EXCEPT !.interactivity.events.onhover.mode = "repulse",
                      !.move.attract.enable = TRUE] }

\* Math.random() returns 0.05 or 0.75: a coordinate of -1 or of 13.
InitIndex ==
    /\ EngineInit(IndexConfigs, { FP \div 20, (3 * FP) \div 4 },
                  { [width |-> 16, height |-> 16] })
    /\ QTIdle
    /\ MergeIdle

NextIndex ==
    \/ StartRender
    \/ Frame(MaxFramesIndex, { 1667 })
    \/ MouseMove(PointerPoints)
    \/ MouseLeave
    \/ Click(PointerPoints, MaxSpawnedIndex)
    \/ Resize({ [width |-> 16, height |-> 16] }, MaxSpawnedIndex)

SpecIndex == InitIndex /\ [][NextIndex]_vars

\* The particles of a list that lie on the canvas, its edges included.
OnCanvas(ps, cv) ==
    { q \in Range(ps) :
        InsideInclusive(Boundary(0, 0, cv.width * FP, cv.height * FP), q) }

\* C22: the index a tick builds holds exactly the population: every
\* particle of it, wherever it is positioned, and nothing else.
C22_IndexHoldsPopulation ==
    [][TickStep => Range(Stored(BuildTree(particles, canvas))) = Range(particles)]_vars

\* What the code does: the index of a tick holds, once each, the particles
\* of the population that lie on the canvas, and no other.
C22_IndexHoldsOnCanvas ==
    [][TickStep =>
         LET stored == Stored(BuildTree(particles, canvas))
         IN /\ NoDuplicates(stored)
            /\ Range(stored) = OnCanvas(particles, canvas)]_vars

\* A tick has run on a population with a particle outside the canvas and
\* one inside.
C22_OutsideTicked ==
    /\ Len(hoverLog) >= 1
    /\ Len(particles) = 2
    /\ Cardinality(OnCanvas(particles, canvas)) = 1

\* The ranges a tick queries the index with: the square around each
\* particle for the attraction, the square around the pointer for the hover.
TickRanges ==
    (IF config.move.attract.enable
     THEN { Boundary(particles[i].x - 200 * FP, particles[i].y - 200 * FP,
                     400 * FP, 400 * FP) : i \in DOMAIN particles }
     ELSE {})
    \cup (IF mouse.active /\ config.interactivity.events.onhover.enable
          THEN { Boundary(mouse.x - QueryDist(config), mouse.y - QueryDist(config),
                          QueryDist(config) * 2, QueryDist(config) * 2) }
          ELSE {})

\* The identities of the particles constructed so far that are no longer in
\* the population: removed by a click or discarded by a resize.
Gone == (1..(nextId - 1)) \ Ids(particles)

\* C23: every particle a query of a tick returns, and every particle the
\* tick applies a hover effect to, updates or paints, is a member of the
\* population at that moment; a particle removed by a click or discarded by
\* a resize appears in none of them in any later tick.
C23_NoStaleParticle ==
    [][TickStep =>
         /\ \A range \in TickRanges :
              Range(QueryIds(BuildTree(particles, canvas), range))
                \subseteq Ids(particles)
         /\ hoverLog'[Len(hoverLog')] \subseteq Ids(particles)
         /\ hoverLog'[Len(hoverLog')] \cap Gone = {}
         /\ Ids(particles') = Ids(particles)
         /\ { surface'[k].id : k \in DOMAIN surface' } = Ids(particles)]_vars

\* A tick applied the hover effect to a particle, a click removed that
\* particle, and the tick after it, the pointer still there, applied the
\* effect to no particle that is gone.
C23_Witness ==
    /\ Len(hoverLog) >= 2
    /\ mouse.active
    /\ Len(particles) = 1
    /\ nextId = 3
    /\ hoverLog[Len(hoverLog) - 1] \cap Gone # {}
    /\ hoverLog[Len(hoverLog)] \cap Gone = {}

\* A resize has discarded particles a tick had applied the hover effect to,
\* and a later tick has applied it to one of the new ones.
C23_AfterResize ==
    /\ Len(hoverLog) >= 2
    /\ hoverLog[1] \cap Gone # {}
    /\ hoverLog[Len(hoverLog)] # {}
    /\ \A i \in DOMAIN particles : particles[i].id >= 3

\* The particles of the population inside the circle of the active hover
\* mode around the pointer.
InsideCircle(ps) ==
    { q \in Range(ps) : DistSq(q, mouse) < Mul(QueryDist(config), QueryDist(config)) }

\* A tick with hover enabled and the pointer active.
HoverTick ==
    /\ TickStep
    /\ mouse.active
    /\ config.interactivity.events.onhover.enable

\* C24: with hover enabled and the pointer active, a tick applies the hover
\* effect to exactly the particles of the population whose squared distance
\* to the pointer is less than the squared mode distance.
C24_HoverExactlyCircle ==
    [][HoverTick =>
         hoverLog'[Len(hoverLog')] = { q.id : q \in InsideCircle(particles) }]_vars

\* What the code does: the effect is applied to exactly the particles
\* inside the circle that lie on the canvas; a particle inside the circle
\* and off the canvas is not in the index and is passed over.
C24_HoverCircleOnCanvas ==
    [][HoverTick =>
         hoverLog'[Len(hoverLog')]
           = { q.id : q \in InsideCircle(particles) \cap OnCanvas(particles, canvas) }]_vars

\* A tick has passed over a particle inside the circle that is off the
\* canvas, and has applied the effect to another.
C24_PassedOver ==
    /\ Len(hoverLog) >= 1
    /\ mouse.active
    /\ hoverLog[Len(hoverLog)] # {}
    /\ config.interactivity.events.onhover.mode = "grab"
    /\ \E q \in InsideCircle(particles) : q.id \notin hoverLog[Len(hoverLog)]

(***************************************************************************)
(* More of SpecTick: the oscillations of opacity and size.                 *)
(***************************************************************************)

\* The particles as the updates of a tick find them: after the attraction
\* and the interactions of the tick.
BeforeUpdate ==
    LET qt == BuildTree(particles, canvas)
    IN ApplyInteractions(qt, mouse, config, ApplyAttraction(particles, config, qt))

\* One step of a linear ping-pong between lo and hi: the value v advanced by
\* rate * direction * delta, set to the bound it reaches or passes, with the
\* direction turned there.
PingPong(v, direction, rate, delta, lo, hi) ==
    LET advanced == v + Mul(rate * direction, delta)
    IN IF advanced >= hi THEN [value |-> hi, direction |-> -1]
       ELSE IF advanced <= lo THEN [value |-> lo, direction |-> 1]
       ELSE [value |-> advanced, direction |-> direction]

\* C25: with an oscillation enabled, after every tick the oscillating value
\* lies within [minimum, maximum]; the direction becomes -1, and the value
\* the maximum, in the tick the advanced value reaches or passes the
\* maximum; the direction becomes +1, and the value the minimum, in the tick
\* it reaches or passes the minimum; in every other tick the direction is
\* unchanged.
C25_PingPongWithinBounds ==
    [][TickStep =>
         \A i \in DOMAIN particles' :
           LET q == BeforeUpdate[i]
               o == PingPong(q.opacity, q.opacityDirection,
                             Div(config.opacity.anim.speed, 1000 * FP), StatedDelta,
                             config.opacity.anim.opacity_min, config.opacity.value)
               r == PingPong(q.radius, q.sizeDirection,
                             Div(config.size.anim.speed, 100 * FP), StatedDelta,
                             config.size.anim.size_min, config.size.value)
           IN /\ config.opacity.anim.enable =>
                   /\ particles'[i].opacity >= config.opacity.anim.opacity_min
                   /\ particles'[i].opacity <= config.opacity.value
                   /\ particles'[i].opacity = o.value
                   /\ particles'[i].opacityDirection = o.direction
              /\ config.size.anim.enable =>
                   /\ particles'[i].radius >= config.size.anim.size_min
                   /\ particles'[i].radius <= config.size.value
                   /\ particles'[i].radius = r.value
                   /\ particles'[i].sizeDirection = r.direction]_vars

\* After two ticks or more, a particle that was constructed with its size
\* growing and its opacity falling is at the maximum size, shrinking, and at
\* the minimum opacity, rising.
C25_Witness ==
    /\ Len(hoverLog) >= 2
    /\ config.size.anim.enable
    /\ config.opacity.anim.enable
    /\ \E i \in DOMAIN particles :
         /\ particles[i].radius = config.size.value
         /\ particles[i].sizeDirection = -1
         /\ particles[i].opacity = config.opacity.anim.opacity_min
         /\ particles[i].opacityDirection = 1

\* C26: with an oscillation enabled, after every update of a particle its
\* cached initial opacity (cached initial radius) equals its current opacity
\* (radius), the one the oscillation step of that tick produced.
C26_CacheFollowsOscillation ==
    [][TickStep =>
         \A i \in DOMAIN particles' :
           /\ config.opacity.anim.enable =>
                particles'[i].initialOpacity = particles'[i].opacity
           /\ config.size.anim.enable =>
                particles'[i].initialRadius = particles'[i].radius]_vars

\* A tick whose bubble effect has touched the particle has left both caches
\* at the values of its oscillation steps, which are not the ones the
\* particle was constructed with.
C26_Witness ==
    /\ Len(hoverLog) >= 1
    /\ hoverLog[Len(hoverLog)] # {}
    /\ config.size.anim.enable
    /\ config.opacity.anim.enable
    /\ \E i \in DOMAIN particles :
         /\ particles[i].id \in hoverLog[Len(hoverLog)]
         /\ particles[i].initialOpacity = particles[i].opacity
         /\ particles[i].initialRadius = particles[i].radius
         /\ particles[i].opacity \notin { (2 * FP) \div 10, (4 * FP) \div 10 }
         /\ particles[i].radius \notin { (125 * FP) \div 100, (175 * FP) \div 100 }

(***************************************************************************)
(* SpecSpin: one particle that rotates, clockwise or counter-clockwise, by *)
(* 45 or by 100 degrees per frame, from 45 degrees or from a random angle, *)
(* with frames that come on time and after 100 ms.                         *)
(***************************************************************************)

\* The most frame callbacks requested in a run of SpecSpin.
MaxFramesSpin == 5

\* The times between two frames in SpecSpin: 16.67 ms and 100 ms.
SpinElapsed == { 1667, 10000 }

SpinConfigs ==
    LET base == [StillConfig EXCEPT
                   !.rotate = [enable |-> TRUE, value |-> 45 * FP, random |-> FALSE,
                               anim |-> [enable |-> TRUE, speed |-> 45 * FP,
                                         direction |-> "clockwise",
                                         sync |-> TRUE]]]
    IN { [base EXCEPT !.rotate.anim.direction = d,
                      !.rotate.anim.speed = v,
                      !.rotate.anim.sync = y] :
           d \in { "clockwise", "counter-clockwise" },
           v \in { 45 * FP, 100 * FP },
           y \in BOOLEAN }

\* Math.random() returns 0 or 0.75: a random angle of 0 or of 270 degrees.
InitSpin ==
    /\ EngineInit(SpinConfigs, { 0, (3 * FP) \div 4 },
                  { [width |-> 16, height |-> 16] })
    /\ QTIdle
    /\ MergeIdle

NextSpin ==
    \/ StartRender
    \/ Frame(MaxFramesSpin, SpinElapsed)

SpecSpin == InitSpin /\ [][NextSpin]_vars

\* A tick of a configuration whose particles rotate.
SpinTick ==
    /\ TickStep
    /\ config.rotate.enable
    /\ config.rotate.anim.enable

\* angle * pi / 180
AngleInRadians(angle) == (angle * PI) \div (180 * FP)

C27_BeyondOneTurn ==
    /\ Len(hoverLog) >= 1
    /\ \/ particles[1].rotation > 360 * FP
       \/ particles[1].rotation < 0

(***************************************************************************)
(* SpecLive: the life of an engine, as in Spec, in which the effect of the *)
(* component runs to its end (engine.render() follows the construction in  *)
(* the same task) and every image load settles, by onload or by onerror.   *)
(***************************************************************************)

SpecLive ==
    /\ Init
    /\ [][Next]_vars
    /\ WF_vars(StartRender)
    /\ WF_vars(ImageLoad \/ ImageError)

\* A step in which an image settles and completes the Promise.all of an
\* initialization.
CompletingStep ==
    /\ pendingLoads' # pendingLoads
    /\ \E j \in joins : j \cap pendingLoads # {} /\ j \cap pendingLoads' = {}

\* C28: if every image load settles, by success or by error, and the engine
\* is not destroyed, onLoaded is eventually invoked; it is invoked in the
\* very step in which the last load of an initialization settles, failed or
\* not; and with no image shape configured it has been invoked as soon as
\* the task of the construction has ended.
C28_EventuallyLoaded ==
    /\ <>(onLoadedCalls >= 1 \/ phase = "destroyed")
    /\ [][CompletingStep => onLoadedCalls' >= 1]_vars
    /\ []((phase = "running" /\ ~LoadsImage(config)) => onLoadedCalls = 1)

\* The one image of the initialization has settled while the engine runs,
\* and onLoaded has been invoked.
C28_Witness ==
    /\ phase = "running"
    /\ LoadsImage(config)
    /\ nextId = 2
    /\ Len(particles) = 1
    /\ pendingLoads = {}
    /\ joins = {}
    /\ onLoadedCalls = 1

(***************************************************************************)
(* More of SpecIndex: ticks and handlers.  Engine.render and the handlers  *)
(* are synchronous functions the host runs one at a time, each to its end; *)
(* every action of the model is one such run.                              *)
(***************************************************************************)

\* A step in which a pointer, click or resize handler has run.
HandlerStep ==
    \/ mouse' # mouse
    \/ lastClick' # lastClick
    \/ nextId' # nextId
    \/ Ids(particles') # Ids(particles)

\* C29: once the render loop is started at most one frame callback is
\* pending at any time; the callback that runs is the pending one, runs one
\* tick and requests one callback; no handler changes the pointer, the
\* canvas or the population within a tick, and no handler runs a tick.
C29_TicksDoNotOverlap ==
    /\ [](Cardinality(frames) <= 1)
    /\ [](phase = "running" => frames = { animationId })
    /\ [][TickStep =>
            /\ frames = { animationId }
            /\ frames' = { animationId' }
            /\ animationId' # animationId
            /\ Len(hoverLog') = Len(hoverLog) + 1
            /\ mouse' = mouse
            /\ canvas' = canvas
            /\ lastClick' = lastClick
            /\ nextId' = nextId
            /\ Ids(particles') = Ids(particles)]_vars
    /\ [][HandlerStep =>
            /\ hoverLog' = hoverLog
            /\ lastTimestamp' = lastTimestamp
            /\ frames' = frames
            /\ animationId' = animationId]_vars

\* Two ticks have run, a click and a resize have been handled, the pointer
\* is on the canvas, and one frame callback is pending.
C29_Witness ==
    /\ Len(hoverLog) = 2
    /\ nextFrame = 4
    /\ frames = { 3 }
    /\ lastClick # [x |-> 0, y |-> 0]
    /\ nextId = 5
    /\ mouse.active

(***************************************************************************)
(* More of SpecMove: a bounce does not stick.                              *)
(***************************************************************************)

\* The boundary step of a tick has turned the velocity component around at
\* the wall at 0 (at the wall at d): v is the component, c the integrated
\* coordinate the step found, w the component after the step.
TurnedAtLow(c, v, w, r) == w # v /\ c - r <= 0
TurnedAtHigh(c, v, w, r, d) == w # v /\ c + r >= d

\* One axis of C30, for a particle of radius r between the walls 0 and d:
\* from the coordinate c0 and the component v0 the tick has integrated to c,
\* and left c1 and v1; the following tick, of any length, leaves v2.
DoesNotStick(c0, v0, c1, v1, r, d) ==
    LET c == c0 + Mul(v0, StatedDelta)
    IN /\ v1 \in { v0, -v0 }
       /\ v1 # v0 => \/ (v0 < 0 /\ c - r <= 0)
                     \/ (v0 > 0 /\ c + r >= d)
       /\ (v0 > 0 /\ c - r <= 0 /\ c + r < d) => (v1 = v0 /\ c1 = c)
       /\ (v0 < 0 /\ c + r >= d /\ c - r > 0) => (v1 = v0 /\ c1 = c)
       /\ \A e \in MoveElapsed :
            LET delta == Delta(IF e > 100 * FP THEN 1667 ELSE e)
                c2 == c1 + Mul(v1, delta)
                v2x == HandleOutMode([x |-> c2, y |-> d \div 2, vx |-> v1, vy |-> 0,
                                      radius |-> r], [width |-> d \div FP,
                                      height |-> d \div FP], config).vx
            IN /\ TurnedAtLow(c, v0, v1, r) => ~TurnedAtLow(c2, v1, v2x, r)
               /\ TurnedAtHigh(c, v0, v1, r, d) => ~TurnedAtHigh(c2, v1, v2x, r, d)

\* C30: with boundary mode bounce, attraction disabled and no repulse, the
\* boundary step turns each velocity component around at most once per tick
\* and only while the particle moves toward the wall it touches, leaves a
\* particle that moves away from the wall it overlaps as it is, and after a
\* turn at a wall does not turn the component around at that wall again on
\* the following tick.
C30_BounceDoesNotStick ==
    [][(TickStep /\ config.move.out_mode = "bounce") =>
         \A i \in DOMAIN particles' :
           /\ DoesNotStick(particles[i].x, particles[i].vx, particles'[i].x,
                           particles'[i].vx, particles[i].radius, canvas.width * FP)
           /\ DoesNotStick(particles[i].y, particles[i].vy, particles'[i].y,
                           particles'[i].vy, particles[i].radius,
                           canvas.height * FP)]_vars

\* A particle that set out to the right from x = 13 was turned around at the
\* right wall by a tick of six frames (19 mirrored to 11) and has moved on
\* to 10 in the following tick, still moving left.
C30_Witness ==
    /\ config.move.out_mode = "bounce"
    /\ config.move.direction.to = "bottom-right"
    /\ Len(hoverLog) = 2
    /\ \E i \in DOMAIN particles :
         /\ particles[i].x = 10 * FP
         /\ particles[i].vx < 0

(***************************************************************************)
(* More of SpecQT: the shape of the tree, and where a full node puts a     *)
(* particle.                                                               *)
(***************************************************************************)

\* The nodes of a tree.
RECURSIVE Nodes(_)
Nodes(t) ==
    IF t = NoTree THEN {}
    ELSE { t } \cup Nodes(t.northwest) \cup Nodes(t.northeast)
               \cup Nodes(t.southwest) \cup Nodes(t.southeast)

\* The sub-quadrants of a node in the order the claims name them.
Children(n) == << n.northwest, n.northeast, n.southwest, n.southeast >>

\* The rectangles a, b, c, d are the northwest, northeast, southwest and
\* southeast quarters of r: equal, and covering r with nothing left over.
Quadrants(r, a, b, c, d) ==
    /\ \A q \in { a, b, c, d } : 2 * q.w = r.w /\ 2 * q.h = r.h
    /\ a.x = r.x /\ a.y = r.y
    /\ b.x = r.x + a.w /\ b.y = r.y
    /\ c.x = r.x /\ c.y = r.y + a.h
    /\ d.x = r.x + a.w /\ d.y = r.y + a.h

\* s is a prefix of t.
Prefix(s, t) == Len(s) <= Len(t) /\ \A i \in DOMAIN s : t[i] = s[i]

\* C31: after any sequence of insertions every node holds at most 4
\* particles, each within the node's boundary; a node has children only if
\* it holds 4 particles; its children are the four equal quadrants tiling
\* its boundary; and it is subdivided at most once: a later insert keeps the
\* children a node has, with all they hold.
C31_TreeShape ==
    /\ [](\A n \in Nodes(qtree) :
            /\ Len(n.particles) <= 4
            /\ \A i \in DOMAIN n.particles : InsideInclusive(n.boundary, n.particles[i])
            /\ n.divided => Len(n.particles) = 4
            /\ IF n.divided
               THEN /\ \A k \in 1..4 : Children(n)[k] # NoTree
                    /\ Quadrants(n.boundary, n.northwest.boundary, n.northeast.boundary,
                                 n.southwest.boundary, n.southeast.boundary)
               ELSE \A k \in 1..4 : Children(n)[k] = NoTree)
    /\ [][\A n \in Nodes(qtree) :
            \E m \in Nodes(qtree') :
              /\ m.boundary = n.boundary
              /\ m.divided \in { n.divided, TRUE }
              /\ Prefix(n.particles, m.particles)]_vars

\* A tree two levels deep: the root and one of its quadrants are full and
\* subdivided, and a quadrant of that quadrant holds a particle.
C31_Witness ==
    /\ Depth(qtree) = 2
    /\ \E n \in Nodes(qtree) :
         /\ n # qtree
         /\ n.divided
         /\ \E k \in 1..4 : Len(Children(n)[k].particles) >= 1

\* The first sub-quadrant, in the order northwest, northeast, southwest,
\* southeast, whose boundary contains p; 0 if there is none.
FirstContaining(n, p) ==
    LET ks == { k \in 1..4 : InsideInclusive(Children(n)[k].boundary, p) }
    IN IF ks = {} THEN 0 ELSE CHOOSE k \in ks : \A j \in ks : k <= j

\* What a sub-quadrant holds; nothing when it does not exist yet.
Under(n, k) == Stored(Children(n)[k])

\* The insert of p that turned the node before into after has stored p as
\* C32 says at every full node it went through.
RECURSIVE StoredUnderFirst(_, _, _)
StoredUnderFirst(before, after, p) ==
    IF before = NoTree \/ Len(before.particles) < Capacity
    THEN p \in Range(after.particles)
    ELSE LET first == FirstContaining(after, p)
         IN /\ after.particles = before.particles
            /\ first # 0
            /\ \A k \in 1..4 :
                 IF k = first
                 THEN /\ Len(Under(after, k)) = Len(Under(before, k)) + 1
                      /\ StoredUnderFirst(Children(before)[k], Children(after)[k], p)
                 ELSE /\ Under(after, k) = Under(before, k)
                      /\ p \notin Range(Under(after, k))

\* C32: when a full node delegates an insert, the particle is stored under
\* the first child, in the order northwest, northeast, southwest, southeast,
\* whose boundary contains its position, and under no other child.
C32_FirstChildWins ==
    [][(Len(qlog') = Len(qlog) + 1 /\ qlog'[Len(qlog')].ok) =>
         StoredUnderFirst(qtree, qtree', qlog'[Len(qlog')].p)]_vars

\* Particles at the centre of the root, which all four quadrants contain,
\* and on the edge the two eastern quadrants share were delegated: all are
\* under one quadrant each, the first that contains them.
C32_Witness ==
    /\ qtree.divided
    /\ \E k \in 1..4 :
         /\ k = FirstContaining(qtree, [x |-> 8, y |-> 8])
         /\ \E p \in Range(Under(qtree, k)) : p.x = 8 /\ p.y = 8
         /\ Cardinality({ j \in 1..4 :
                InsideInclusive(Children(qtree)[j].boundary, [x |-> 8, y |-> 8]) }) >= 2
    /\ \E p \in Range(Under(qtree, 2)) : p.x = 16 /\ p.y = 8

(***************************************************************************)
(* More of SpecIndex: the grab mode.                                       *)
(***************************************************************************)

\* A tick of an engine whose hover mode is grab.
GrabTick == TickStep /\ config.interactivity.events.onhover.mode = "grab"

\* The lines on the canvas.
Lines == SelectSeq(surface, LAMBDA e : e.kind = "line")

\* C33: with hover mode grab the pointer interaction step of a tick changes
\* no particle state, whether or not the pointer is active: the particles
\* leave the step as they entered it, the tick ends as the tick without the
\* step would, and the step has stroked one line per particle in reach.
C33_GrabChangesNothing ==
    [][GrabTick =>
         LET qt == BuildTree(particles, canvas)
             entered == ApplyAttraction(particles, config, qt)
             left == ApplyInteractions(qt, mouse, config, entered)
             delta == Delta(ElapsedUsed(lastTimestamp'))
         IN /\ left = entered
            /\ particles' = [i \in DOMAIN entered |->
                               Update(entered[i], delta, canvas, config)]
            /\ { Lines'[k].id : k \in DOMAIN Lines' } = hoverLog'[Len(hoverLog')]
            /\ ~mouse.active => Lines' = << >>]_vars

\* A grab tick with the pointer active has stroked a line to a particle.
C33_Witness ==
    /\ config.interactivity.events.onhover.mode = "grab"
    /\ mouse.active
    /\ Len(hoverLog) = 1
    /\ Lines # << >>
    /\ \E k \in DOMAIN Lines : Lines[k].mx = mouse.x /\ Lines[k].my = mouse.y

\* A grab tick has run with the pointer inactive and has stroked nothing.
C33_PointerInactive ==
    /\ config.interactivity.events.onhover.mode = "grab"
    /\ ~mouse.active
    /\ Len(hoverLog) = 1
    /\ Lines = << >>
    /\ \E k \in DOMAIN surface : surface[k].kind = "particle"

(***************************************************************************)
(* SpecDepth: particles drawn from the sprites of the depth blur.          *)
(***************************************************************************)

\* The most frame callbacks requested in a run of SpecDepth.
MaxFramesDepth == 3

\* The configurations of SpecTick with the depth blur enabled: sizes drawn
\* at random from [0, 2] and grown by a bubble up to 4; sizes oscillating
\* in [1, 2]; sizes whose minimum equals the maximum; sizes left alone.
DepthConfigs ==
    LET blurred == [c \in TickConfigs |-> [c EXCEPT !.depthBlur.enable = TRUE]]
        base == CHOOSE c \in TickConfigs :
                  /\ c.number.value = 2
                  /\ c.interactivity.events.onhover.mode = "bubble"
    IN { blurred[c] : c \in { d \in TickConfigs :
                                d.interactivity.events.onhover.mode = "bubble" } }
       \cup { [blurred[base] EXCEPT !.size.random = TRUE, !.number.value = 1] }

\* Math.random() returns 0, 0.25 or 0.75.
InitDepth ==
    /\ EngineInit(DepthConfigs, { 0, FP \div 4, (3 * FP) \div 4 },
                  { [width |-> 16, height |-> 16] })
    /\ QTIdle
    /\ MergeIdle

NextDepth ==
    \/ StartRender
    \/ Frame(MaxFramesDepth, { 1667 })
    \/ MouseMove(PointerPoints)
    \/ MouseLeave

SpecDepth == InitDepth /\ [][NextDepth]_vars

\* The radius below which no particle of the configuration is meant to be.
MinimumRadius(cfg) == IF cfg.size.anim.enable THEN cfg.size.anim.size_min ELSE 0

\* The tier of a radius between the minimum lo and the maximum hi: 2 (far)
\* when (radius - lo) / (hi - lo) is above 0.66, 1 (mid) when it is above
\* 0.33, else 0 (near).  With hi = lo the quotient is 0 for radius = lo.
Tier(radius, lo, hi) ==
    LET depth == IF hi = lo /\ radius = lo THEN 0 ELSE Div(radius - lo, hi - lo)
    IN IF depth > (66 * FP) \div 100 THEN 2
       ELSE IF depth > (33 * FP) \div 100 THEN 1
       ELSE 0

\* The particles on the canvas.
Drawn == SelectSeq(surface, LAMBDA e : e.kind = "particle")

C34_RadiusZero ==
    /\ config.depthBlur.enable
    /\ \E k \in DOMAIN Drawn : Drawn[k].radius = 0 /\ Drawn[k].sprite = 0

\* An oscillating particle was drawn from the mid sprite.
C34_MidTier ==
    /\ config.depthBlur.enable
    /\ config.size.anim.enable
    /\ \E k \in DOMAIN Drawn : Drawn[k].sprite = 1

\* A particle whose size minimum equals the maximum was drawn.
C34_NoSpan ==
    /\ config.depthBlur.enable
    /\ MinimumRadius(config) = config.size.value
    /\ Drawn # << >>

(***************************************************************************)
(* More of Spec: the configuration.  A particle holds no copy of it in the *)
(* model: the constructor and every later operation on a particle are      *)
(* given the record the particle refers to.  The configurations of Spec    *)
(* leave the particles as they were constructed, apart from the position.  *)
(***************************************************************************)

\* A particle without its position.
Unplaced(q) == [q EXCEPT !.x = 0, !.y = 0]

\* The particle q is one the constructor makes from the record cfg.
ConstructedFrom(q, cfg) ==
    \E r \in Draws(cfg, FALSE, randoms) :
      Unplaced(q) = Unplaced(NewParticle(canvas, cfg, NoPosition, q.id, r))

\* C35: after construction no operation of the engine or of a particle
\* changes any value of the configuration record, and every particle,
\* whether created at initialization, on a resize or by a push click, goes
\* by the record of the engine.
C35_ConfigShared ==
    /\ [][config' = config]_vars
    /\ [](\A i \in DOMAIN particles : ConstructedFrom(particles[i], config))

\* After a resize, a push click and a tick the population holds a particle
\* of the re-initialization and a pushed one.
C35_Witness ==
    /\ PushesOnClick
    /\ Len(particles) = 2
    /\ particles[1].id = 2
    /\ particles[2].id = 3
    /\ particles[2].x = lastClick.x
    /\ Len(hoverLog) >= 1

\* The engine of a configuration that loads images was destroyed after a
\* click.
C35_Destroyed ==
    /\ phase = "destroyed"
    /\ LoadsImage(config)
    /\ lastClick # [x |-> 0, y |-> 0]

(***************************************************************************)
(* More of Spec: what has loaded when the notification fires.              *)
(***************************************************************************)

\* A step in which onLoaded is invoked.
NotifyingStep == onLoadedCalls' > onLoadedCalls

\* C36: at the moment the assets-ready notification fires, the image load
\* of every particle currently in the population has settled, whatever the
\* interleaving of load completions, resizes and push clicks.
C36_PopulationLoadedAtNotification ==
    [][NotifyingStep => Ids(particles') \cap pendingLoads' = {}]_vars

\* What the code does: the notification fires once the loads of the
\* particles of one initialization have all settled, whether or not they
\* are still in the population.
C36_OneInitializationLoaded ==
    [][NotifyingStep =>
         \E j \in joins \cup { Ids(particles') } :
           j # {} /\ j \cap pendingLoads' = {}]_vars

\* The notification has fired while the image of a particle of the
\* population is still loading.
C36_NotifiedWhileLoading ==
    /\ onLoadedCalls = 1
    /\ phase = "running"
    /\ Ids(particles) \cap pendingLoads # {}

(***************************************************************************)
(* More of SpecTick: the bubble and the cached initial values.             *)
(***************************************************************************)

\* A tick of the bubble mode with the pointer active.
BubbleTick ==
    /\ TickStep
    /\ mouse.active
    /\ config.interactivity.events.onhover.enable
    /\ config.interactivity.events.onhover.mode = "bubble"

\* The particles after the same tick run with the pointer inactive.
CalmTick ==
    Tick(particles, Delta(ElapsedUsed(lastTimestamp')), config, canvas,
         [mouse EXCEPT !.active = FALSE])

\* C37: in bubble mode the cached initial radius and the cached initial
\* opacity of a particle inside the bubble distance are, after a tick with
\* the pointer active, what they are after the same tick run with the
\* pointer inactive, also when the size or the opacity oscillates.
C37_BaselineUntouchedByHover ==
    [][BubbleTick =>
         \A i \in DOMAIN particles' :
           particles'[i].id \in hoverLog'[Len(hoverLog')] =>
             /\ particles'[i].initialRadius = CalmTick[i].initialRadius
             /\ particles'[i].initialOpacity = CalmTick[i].initialOpacity]_vars

\* What the code does: the cached initial radius is the same with and
\* without the pointer where the size does not oscillate, and the cached
\* initial opacity where the opacity does not oscillate or the bubble sets
\* no opacity.
C37_BaselineKeptWithoutOscillation ==
    [][BubbleTick =>
         \A i \in DOMAIN particles' :
           /\ ~config.size.anim.enable =>
                particles'[i].initialRadius = CalmTick[i].initialRadius
           /\ (\/ ~config.opacity.anim.enable
               \/ config.interactivity.modes.bubble.opacity = Undefined) =>
                particles'[i].initialOpacity = CalmTick[i].initialOpacity]_vars

\* An oscillating particle inside the bubble has the configured size as its
\* cached initial radius after the tick and is shrinking, where the tick
\* without the pointer would have left it smaller.
C37_BaselineMoved ==
    /\ config.size.anim.enable
    /\ mouse.active
    /\ Len(hoverLog) >= 1
    /\ \E i \in DOMAIN particles :
         /\ particles[i].id \in hoverLog[Len(hoverLog)]
         /\ particles[i].initialRadius = config.size.value
         /\ particles[i].sizeDirection = -1

====
